---- MODULE Spec2Model ----
(***************************************************************************)
(* Interactive, checkpointable ensemble control loop of r.spread.pest      *)
(* (src/main.cpp): the steering command queue, the steering network        *)
(* thread, and the main simulation loop with its year-closing batch.       *)
(*                                                                         *)
(* Rasters are modelled with a single cell (an integer host count).  The   *)
(* step granularity is "month".  Strings received from the network are     *)
(* sequences of one-character strings.                                     *)
(***************************************************************************)
EXTENDS Integers, Sequences, FiniteSets, TLC

(***************************************************************************)
(* Bounds of the model.                                                    *)
(***************************************************************************)
\* largest number of simulated years (end_time - start_time + 1)
MaxYears == 2
\* largest number of frames the steering server sends in one session
MaxFrames == 2

(***************************************************************************)
(* Integer widths.                                                         *)
(***************************************************************************)
\* An unsigned value is represented by the int it converts to and from
\* (two's complement, 32 bit): a negative int stands for itself + 2^32.
\* a < b and a >= b of two values compared as unsigned:
UnsignedLess(a, b) ==
    \/ (a >= 0 /\ b >= 0 /\ a < b)
    \/ (a >= 0 /\ b < 0)
    \/ (a < 0 /\ b < 0 /\ a < b)
UnsignedGE(a, b) == ~UnsignedLess(a, b)
UnsignedLE(a, b) == ~UnsignedLess(b, a)

Min(a, b) == IF a < b THEN a ELSE b

\* statements executed one after another: F takes the value its
\* predecessor has produced
Do(F(_), x0) == CHOOSE y \in {F(x) : x \in {x0}} : TRUE

\* a statement of the loop body: it is reached unless the process has
\* ended or the loop was left before it
Then(F(_), s0) == Do(LAMBDA s : IF s.pc # "loop" THEN s ELSE F(s), s0)

(***************************************************************************)
(* pops::Date (pops/date.hpp, not part of src/): year, month, day.         *)
(***************************************************************************)
Date(y, m, d) == [year |-> y, month |-> m, day |-> d]

DateGT(a, b) ==
    IF a.year # b.year THEN a.year > b.year
    ELSE IF a.month # b.month THEN a.month > b.month
    ELSE a.day > b.day

DateLE(a, b) == ~DateGT(a, b)

is_leap_year(y) == (y % 4 = 0) /\ ((y % 100 # 0) \/ (y % 400 = 0))

day_in_month(y, m) ==
    IF m = 2 THEN (IF is_leap_year(y) THEN 29 ELSE 28)
    ELSE IF m \in {4, 6, 9, 11} THEN 30 ELSE 31

increased_by_month(d) ==
    LET m == IF d.month + 1 > 12 THEN 1 ELSE d.month + 1
        y == IF d.month + 1 > 12 THEN d.year + 1 ELSE d.year
    IN  Date(y, m, Min(d.day, day_in_month(y, m)))

get_last_day_of_month(d) == Date(d.year, d.month, day_in_month(d.year, d.month))

is_last_month_of_year(d) == d.month = 12

get_next_year_end(d) ==
    IF d.month = 1 THEN Date(d.year, 12, 31) ELSE Date(d.year + 1, 12, 31)

(***************************************************************************)
(* Strings of the wire protocol.                                           *)
(***************************************************************************)
W_cmd == <<"c", "m", "d">>
W_play == <<"p", "l", "a", "y">>
W_pause == <<"p", "a", "u", "s", "e">>
W_stepf == <<"s", "t", "e", "p", "f">>
W_stepb == <<"s", "t", "e", "p", "b">>
W_stop == <<"s", "t", "o", "p">>
W_load == <<"l", "o", "a", "d">>
W_name == <<"n", "a", "m", "e">>
W_goto == <<"g", "o", "t", "o">>
W_sync == <<"s", "y", "n", "c">>
Colon == <<":">>
Semi == <<";">>

Digits == <<"0", "1", "2", "3", "4", "5", "6", "7", "8", "9">>
IsDigit(c) == \E i \in 1..10 : Digits[i] = c
DigitValue(c) == (CHOOSE i \in 1..10 : Digits[i] = c) - 1

\* std::string::substr(pos, n); pos is 0-based, n is a size_t
SubstrThrows(s, pos) == pos > Len(s)
Substr(s, pos, n) == SubSeq(s, pos + 1, Min(pos + n, Len(s)))
\* message.length() - k evaluated in size_t: below zero it wraps to a
\* count larger than any string
Npos == 2147483647
SizeMinus(s, k) == IF Len(s) >= k THEN Len(s) - k ELSE Npos

RECURSIVE split_rec(_, _, _, _, _)
split_rec(s, delimiter, i, token, tokens) ==
    IF i > Len(s)
    THEN (IF token = <<>> THEN tokens ELSE Append(tokens, token))
    ELSE IF s[i] = delimiter
         THEN split_rec(s, delimiter, i + 1, <<>>, Append(tokens, token))
         ELSE split_rec(s, delimiter, i + 1, Append(token, s[i]), tokens)

\* split(): std::getline in a loop; a trailing empty token is not produced
split(s, delimiter) == split_rec(s, delimiter, 1, <<>>, <<>>)

\* number of leading digits of s from position i (1-based)
RECURSIVE DigitRun(_, _)
DigitRun(s, i) ==
    IF i <= Len(s) /\ IsDigit(s[i]) THEN 1 + DigitRun(s, i + 1) ELSE 0

\* std::stoi / std::stoul (strtol / strtoul, base 10): leading white space
\* is skipped, then an optional sign, then at least one digit; what
\* follows the digits is ignored
\* (isspace in the "C" locale: space, \t, \n, \v, \f, \r)
VerticalTab == ""
IsSpace(c) == c \in {" ", "\t", "\n", VerticalTab, "\f", "\r"}

RECURSIVE SkipSpace(_, _)
SkipSpace(s, i) == IF i <= Len(s) /\ IsSpace(s[i]) THEN SkipSpace(s, i + 1) ELSE i

HasSign(s) == SkipSpace(s, 1) <= Len(s) /\ s[SkipSpace(s, 1)] \in {"-", "+"}
IsNegative(s) == HasSign(s) /\ s[SkipSpace(s, 1)] = "-"
FirstDigit(s) == SkipSpace(s, 1) + (IF HasSign(s) THEN 1 ELSE 0)
\* std::invalid_argument: no digit where the number should start
NumberThrows(s) == DigitRun(s, FirstDigit(s)) = 0

\* leading zeros do not count towards the size of the number
RECURSIVE SkipZeros(_, _)
SkipZeros(s, i) == IF i <= Len(s) /\ s[i] = "0" THEN SkipZeros(s, i + 1) ELSE i

\* the n digits of s from position i are a larger number than the n digits
\* of limit
RECURSIVE DigitsAbove(_, _, _, _)
DigitsAbove(s, i, limit, j) ==
    IF j > Len(limit) THEN FALSE
    ELSE IF DigitValue(s[i]) # DigitValue(limit[j])
    THEN DigitValue(s[i]) > DigitValue(limit[j])
    ELSE DigitsAbove(s, i + 1, limit, j + 1)

\* the magnitude written in s is larger than the one written in limit
MagnitudeAbove(s, limit) ==
    LET first == SkipZeros(s, FirstDigit(s))
        n == DigitRun(s, first)
    IN  n > Len(limit) \/ (n = Len(limit) /\ DigitsAbove(s, first, limit, 1))

IntMax == <<"2", "1", "4", "7", "4", "8", "3", "6", "4", "7">>
IntMinMagnitude == <<"2", "1", "4", "7", "4", "8", "3", "6", "4", "8">>
UlongMax == <<"1", "8", "4", "4", "6", "7", "4", "4", "0", "7",
              "3", "7", "0", "9", "5", "5", "1", "6", "1", "5">>

\* std::out_of_range of stoi: the value is outside [-2^31, 2^31 - 1]
stoiOutOfRange(s) ==
    MagnitudeAbove(s, IF IsNegative(s) THEN IntMinMagnitude ELSE IntMax)

\* the value of the n digits from position i, accumulated with the sign
\* (the magnitude of the smallest int is not an int)
RECURSIVE DigitsValue(_, _, _, _, _)
DigitsValue(s, i, n, acc, sign) ==
    IF n = 0 THEN acc
    ELSE DigitsValue(s, i + 1, n - 1, 10 * acc + sign * DigitValue(s[i]), sign)

stoi(s) ==
    DigitsValue(s, FirstDigit(s), DigitRun(s, FirstDigit(s)), 0,
                IF IsNegative(s) THEN 0 - 1 ELSE 1)

\* std::out_of_range of stoul: the magnitude is above 2^64 - 1 (a minus
\* sign is accepted, the value is negated in unsigned long)
stoulOutOfRange(s) == MagnitudeAbove(s, UlongMax)

\* the low 32 bits of the n digits from position i, kept as two 16-bit
\* halves <<high, low>>
RECURSIVE DigitsLow32(_, _, _, _)
DigitsLow32(s, i, n, acc) ==
    IF n = 0 THEN acc
    ELSE LET low == 10 * acc[2] + DigitValue(s[i])
             high == 10 * acc[1] + low \div 65536
         IN  DigitsLow32(s, i + 1, n - 1, <<high % 65536, low % 65536>>)

\* negation modulo 2^32
NegateLow32(w) ==
    IF w[2] = 0 THEN <<(65536 - w[1]) % 65536, 0>>
    ELSE <<65535 - w[1], 65536 - w[2]>>

\* 32 bits read as an int (two's complement)
Low32ToInt(w) ==
    IF w[1] >= 32768 THEN (w[1] - 65536) * 65536 + w[2] ELSE w[1] * 65536 + w[2]

\* int treatment_year = std::stoul(...): the unsigned long is converted to
\* int, which keeps its low 32 bits
stoulToInt(s) ==
    LET w == DigitsLow32(s, FirstDigit(s), DigitRun(s, FirstDigit(s)), <<0, 0>>)
    IN  Low32ToInt(IF IsNegative(s) THEN NegateLow32(w) ELSE w)

(***************************************************************************)
(* State.                                                                  *)
(***************************************************************************)
VARIABLES
    \* parsed options and input rasters (fixed during a run)
    opt,
    \* class Steering
    command_queue, load_data, basename, goto_year, treatment_year,
    \* steering_client thread
    client_pc, received_vec, socket_open, nframes,
    \* main(): simulation clock and loop control
    pc, cmd, dd_current, dd_current_end, dd_current_last_day, current_step,
    unresolved_steps, unresolved_dates, after_loading_checkpoint, sync,
    \* main(): realizations
    sus_species_rasts, inf_species_rasts, inf_species_cohort_rasts,
    dead_in_current_year, accumulated_dead, I_species_rast, treatments,
    \* main(): the workers of the parallel pass (one per realization)
    workers,
    \* main(): checkpoints
    last_checkpoint, sus_checkpoint, inf_checkpoint, step_checkpoint,
    date_checkpoint,
    \* effects of the latest loop iteration on the outside world
    last_name, sent, written,
    \* history: commands stored so far, commands returned by get() so far
    stored, got,
    \* history: for every GoTo and LoadData command in the queue, in the
    \* order of the queue, the year and the name of the message that stored it
    payloads,
    \* history: whether the latest iteration recorded a sub-step, the years
    \* closed since the last command, the last command with its context,
    \* and the kind of the last command that moved the target date
    recorded, batches, ctl, mode

steering_vars == <<command_queue, load_data, basename, goto_year, treatment_year>>
client_vars == <<client_pc, received_vec, socket_open, nframes>>
clock_vars == <<dd_current, dd_current_end, dd_current_last_day, current_step,
                unresolved_steps, unresolved_dates, after_loading_checkpoint, sync>>
run_vars == <<sus_species_rasts, inf_species_rasts, inf_species_cohort_rasts,
              dead_in_current_year, accumulated_dead, I_species_rast, treatments,
              workers>>
checkpoint_vars == <<last_checkpoint, sus_checkpoint, inf_checkpoint,
                     step_checkpoint, date_checkpoint>>
effect_vars == <<last_name, sent, written>>
history_vars == <<recorded, batches, ctl, mode>>
main_vars == <<pc, cmd, clock_vars, run_vars, checkpoint_vars, effect_vars,
               got, history_vars>>
vars == <<opt, steering_vars, client_vars, main_vars, stored, payloads>>

(***************************************************************************)
(* Values derived from the options.                                        *)
(***************************************************************************)
dd_start == Date(opt.start_time, 1, 1)
dd_end == Date(opt.end_time, 12, 31)
num_years == dd_end.year - dd_start.year + 1
num_checkpoints == dd_end.year - dd_start.year + 2
Runs == 0..(opt.num_runs - 1)
Ages == 0..(num_years - 1)
Slots == 0..(num_checkpoints - 1)
steering == opt.steering
S_species_rast == opt.host - opt.infected
use_treatments == opt.treatments_given \/ steering
month_in_season(m) == opt.season[1] <= m /\ m <= opt.season[2]

(***************************************************************************)
(* Steering::store, Steering::get                                          *)
(***************************************************************************)
\* (variant: the command is dropped)
storeLost(queue, c) == queue
store(queue, c) == Append(queue, c)

\* (variant: the newest command is returned)
getNewest(queue) ==
    IF queue # <<>>
    THEN [cmd |-> queue[Len(queue)], queue |-> SubSeq(queue, 1, Len(queue) - 1)]
    ELSE [cmd |-> "None", queue |-> queue]
get(queue) ==
    IF queue # <<>>
    THEN [cmd |-> Head(queue), queue |-> Tail(queue)]
    ELSE [cmd |-> "None", queue |-> queue]

(***************************************************************************)
(* steering_client: the effect of one message of a received frame.         *)
(* kind: "store" (a command is stored), "skip" (nothing), "throw" (an      *)
(* exception leaves the thread function: std::terminate), "ub_year" and    *)
(* "ub_name" (received_load[1], received_load[2] is read past the end of   *)
(* the vector).                                                            *)
(***************************************************************************)
Fields == [load_data |-> load_data, basename |-> basename,
           goto_year |-> goto_year, treatment_year |-> treatment_year]

Payload(c, year, name) == [cmd |-> c, year |-> year, name |-> name]

Effect(kind, c, f, stop) == [kind |-> kind, cmd |-> c, fields |-> f, stop |-> stop]

\* (variant: the loop over the messages is not left after cmd:stop)
CmdTokenNoBreak(token, f) ==
    IF token = W_play THEN Effect("store", "Play", f, FALSE)
    ELSE IF token = W_pause THEN Effect("store", "Pause", f, FALSE)
    ELSE IF token = W_stepf THEN Effect("store", "StepForward", f, FALSE)
    ELSE IF token = W_stepb THEN Effect("store", "StepBack", f, FALSE)
    ELSE IF token = W_stop THEN Effect("store", "Stop", f, FALSE)
    ELSE Effect("skip", "None", f, FALSE)

CmdToken(token, f) ==
    IF token = W_play THEN Effect("store", "Play", f, FALSE)
    ELSE IF token = W_pause THEN Effect("store", "Pause", f, FALSE)
    ELSE IF token = W_stepf THEN Effect("store", "StepForward", f, FALSE)
    ELSE IF token = W_stepb THEN Effect("store", "StepBack", f, FALSE)
    ELSE IF token = W_stop THEN Effect("store", "Stop", f, TRUE)
    ELSE Effect("skip", "None", f, FALSE)

MessageEffect(message, f) ==
    IF Substr(message, 0, 3) = W_cmd
    THEN IF SubstrThrows(message, 4)
         THEN Effect("throw", "None", f, FALSE)
         ELSE CmdToken(Substr(message, 4, SizeMinus(message, 4)), f)
    ELSE IF Substr(message, 0, 4) = W_load
    THEN LET received_load == split(message, ":")
         IN  IF Len(received_load) < 2
             THEN Effect("ub_year", "LoadData", f, FALSE)
             ELSE IF NumberThrows(received_load[2]) \/ stoulOutOfRange(received_load[2])
             THEN Effect("throw", "None", f, FALSE)
             ELSE IF Len(received_load) < 3
             THEN Effect("ub_name", "LoadData",
                         [f EXCEPT !.treatment_year = stoulToInt(received_load[2])],
                         FALSE)
             ELSE Effect("store", "LoadData",
                         [f EXCEPT !.treatment_year = stoulToInt(received_load[2]),
                                   !.load_data = received_load[3]],
                         FALSE)
    ELSE IF Substr(message, 0, 4) = W_name
    THEN IF SubstrThrows(message, 5)
         THEN Effect("throw", "None", f, FALSE)
         ELSE Effect("store", "ChangeName",
                     [f EXCEPT !.basename = Substr(message, 5, SizeMinus(message, 5))],
                     FALSE)
    ELSE IF Substr(message, 0, 4) = W_goto
    THEN IF SubstrThrows(message, 5)
         THEN Effect("throw", "None", f, FALSE)
         ELSE LET year == Substr(message, 5, SizeMinus(message, 5))
              IN  IF NumberThrows(year) \/ stoiOutOfRange(year)
                  THEN Effect("throw", "None", f, FALSE)
                  ELSE Effect("store", "GoTo", [f EXCEPT !.goto_year = stoi(year)], FALSE)
    ELSE IF Substr(message, 0, 4) = W_sync
    THEN Effect("store", "SyncRuns", f, FALSE)
    ELSE Effect("skip", "None", f, FALSE)

(***************************************************************************)
(* steering_client: the steps of the thread. The payload fields are        *)
(* written without the mutex (lines 336, 337, 343, 348), the command is    *)
(* stored under the mutex afterwards (lines 339, 344, 349): main() can run *)
(* between the steps. client_pc is the position of the thread: "receive",  *)
(* "handle" (at the head of a pass of the for loop), "load_name" (a load   *)
(* message, before line 337), "store" (before the store of a message with  *)
(* a payload), "store_stop" (a failed receive, before line 308), "exited", *)
(* "terminate", "ub".                                                      *)
(***************************************************************************)
\* the variables the thread writes, as a record
ClientState ==
    [client_pc |-> client_pc, received_vec |-> received_vec, nframes |-> nframes,
     load_data |-> load_data, basename |-> basename,
     goto_year |-> goto_year, treatment_year |-> treatment_year,
     command_queue |-> command_queue, stored |-> stored, payloads |-> payloads]

\* the effect of the message the thread is handling
Handled(t) ==
    MessageEffect(Head(t.received_vec),
                  [load_data |-> t.load_data, basename |-> t.basename,
                   goto_year |-> t.goto_year, treatment_year |-> t.treatment_year])

\* the end of a pass of the for loop: the next message, or the next frame
NextMessage(t, stop) ==
    [t EXCEPT !.received_vec = IF stop THEN <<>> ELSE Tail(@),
              !.client_pc = IF stop THEN "exited"
                            ELSE IF Tail(t.received_vec) = <<>> THEN "receive"
                            ELSE "handle"]

\* steering.store(c) and the end of the pass
StoreStep(t, c, stop) ==
    NextMessage([t EXCEPT
                    !.command_queue = store(@, c),
                    !.stored = Append(@, c),
                    !.payloads =
                        IF c = "GoTo"
                        THEN Append(@, Payload("GoTo", t.goto_year, <<>>))
                        ELSE IF c = "LoadData"
                        THEN Append(@, Payload("LoadData", t.treatment_year, t.load_data))
                        ELSE @],
                stop)

\* the next step of the thread reads past the end of received_load
IndexPastEnd(t) ==
    \/ t.client_pc = "handle" /\ Handled(t).kind = "ub_year"
    \/ t.client_pc = "load_name" /\ Handled(t).kind \in {"ub_year", "ub_name"}

\* the next step of the thread, when it is a defined one
ClientStep(t) ==
    IF t.client_pc = "handle"
    THEN IF Handled(t).kind = "throw"
         THEN [t EXCEPT !.client_pc = "terminate", !.received_vec = <<>>]
         ELSE IF Handled(t).kind = "skip"
         THEN NextMessage(t, FALSE)
         ELSE IF Handled(t).cmd = "LoadData"
         THEN [t EXCEPT !.treatment_year = Handled(t).fields.treatment_year,
                        !.client_pc = "load_name"]
         ELSE IF Handled(t).cmd = "ChangeName"
         THEN [t EXCEPT !.basename = Handled(t).fields.basename,
                        !.client_pc = "store"]
         ELSE IF Handled(t).cmd = "GoTo"
         THEN [t EXCEPT !.goto_year = Handled(t).fields.goto_year,
                        !.client_pc = "store"]
         ELSE StoreStep(t, Handled(t).cmd, Handled(t).stop)
    ELSE IF t.client_pc = "load_name"
    THEN [t EXCEPT !.load_data = Handled(t).fields.load_data,
                   !.client_pc = "store"]
    ELSE StoreStep(t, Handled(t).cmd, FALSE)

\* what a read past the end of received_load can give: the thread is
\* killed, or bytes that happen to lie there are taken for the string
GarbageYears == {0, 2000}
GarbageNames == {<<"?">>, <<"a">>}

\* the outcomes of the next step of the thread
ClientSteps(t) ==
    IF ~IndexPastEnd(t)
    THEN {ClientStep(t)}
    ELSE {[t EXCEPT !.client_pc = "ub", !.received_vec = <<>>]} \cup
         (IF t.client_pc = "handle"
          THEN {[t EXCEPT !.client_pc = "terminate", !.received_vec = <<>>]} \cup
               {[t EXCEPT !.treatment_year = year, !.client_pc = "load_name"] :
                   year \in GarbageYears}
          ELSE {[t EXCEPT !.load_data = name, !.client_pc = "store"] :
                   name \in GarbageNames})

\* the variables of the thread take the values of t
ClientBecomes(t) ==
    /\ client_pc' = t.client_pc
    /\ received_vec' = t.received_vec
    /\ nframes' = t.nframes
    /\ load_data' = t.load_data
    /\ basename' = t.basename
    /\ goto_year' = t.goto_year
    /\ treatment_year' = t.treatment_year
    /\ command_queue' = t.command_queue
    /\ stored' = t.stored
    /\ payloads' = t.payloads

\* the process is running (no fatal error, no abort, main has not returned)
Alive == pc \in {"loop", "pass", "done"}

\* c.receive() has returned a frame (line 304) that line 312 splits into
\* the messages of vec
Received(t, vec) ==
    [t EXCEPT !.nframes = @ + 1,
              !.received_vec = vec,
              !.client_pc = IF vec = <<>> THEN "receive" ELSE "handle"]

\* c.receive() returns a frame: it is split into messages
Receive(frame) ==
    /\ Alive
    /\ steering
    /\ client_pc = "receive"
    /\ nframes < MaxFrames
    /\ ClientBecomes(Received(ClientState, split(frame, ";")))
    /\ UNCHANGED <<opt, socket_open, main_vars>>

\* one step of a pass of the for loop over received_vec; an exception that
\* leaves the thread function and a killed thread end the process
HandleMessage ==
    /\ Alive
    /\ client_pc \in {"handle", "load_name", "store"}
    /\ \E t \in ClientSteps(ClientState) :
           /\ ClientBecomes(t)
           /\ pc' = IF t.client_pc \in {"terminate", "ub"} THEN "aborted" ELSE pc
    /\ UNCHANGED <<opt, socket_open, cmd, clock_vars, run_vars,
                   checkpoint_vars, effect_vars, got, history_vars>>

\* (variant: the thread keeps receiving after a failed receive)
RecvFailContinue ==
    /\ Alive
    /\ steering
    /\ \/ /\ client_pc = "receive"
          /\ socket_open
          /\ socket_open' = FALSE
          /\ client_pc' = "store_stop"
          /\ UNCHANGED <<command_queue, stored>>
       \/ /\ client_pc = "store_stop"
          /\ command_queue' = store(command_queue, "Stop")
          /\ stored' = Append(stored, "Stop")
          /\ client_pc' = "receive"
          /\ UNCHANGED socket_open
    /\ UNCHANGED <<opt, load_data, basename, goto_year, treatment_year,
                   received_vec, nframes, main_vars, payloads>>

\* c.receive() fails (rec_error <= 0), lines 305-309, in the two steps of
\* the thread: the socket is closed (line 307); Stop is stored under the
\* mutex (line 308) and the receive loop is left (line 309). main() can
\* run between the two
RecvFail ==
    /\ Alive
    /\ steering
    /\ \/ /\ client_pc = "receive"
          /\ socket_open' = FALSE
          /\ client_pc' = "store_stop"
          /\ UNCHANGED <<command_queue, stored>>
       \/ /\ client_pc = "store_stop"
          /\ command_queue' = store(command_queue, "Stop")
          /\ stored' = Append(stored, "Stop")
          /\ client_pc' = "exited"
          /\ UNCHANGED socket_open
    /\ UNCHANGED <<opt, load_data, basename, goto_year, treatment_year,
                   received_vec, nframes, main_vars, payloads>>

(***************************************************************************)
(* main(): the state of the loop as a record, so that the statements of    *)
(* one iteration can be composed in program order.                         *)
(***************************************************************************)
Cur == [pc |-> pc,
        dd_current |-> dd_current,
        dd_current_end |-> dd_current_end,
        dd_current_last_day |-> dd_current_last_day,
        current_step |-> current_step,
        unresolved_steps |-> unresolved_steps,
        unresolved_dates |-> unresolved_dates,
        after_loading_checkpoint |-> after_loading_checkpoint,
        sync |-> sync,
        sus_species_rasts |-> sus_species_rasts,
        inf_species_rasts |-> inf_species_rasts,
        inf_species_cohort_rasts |-> inf_species_cohort_rasts,
        dead_in_current_year |-> dead_in_current_year,
        accumulated_dead |-> accumulated_dead,
        I_species_rast |-> I_species_rast,
        treatments |-> treatments,
        last_checkpoint |-> last_checkpoint,
        sus_checkpoint |-> sus_checkpoint,
        inf_checkpoint |-> inf_checkpoint,
        step_checkpoint |-> step_checkpoint,
        date_checkpoint |-> date_checkpoint,
        last_name |-> <<>>,
        sent |-> <<>>,
        written |-> <<>>,
        recorded |-> FALSE,
        closed |-> <<>>]

(***************************************************************************)
(* main(): the command branches (lines 1164-1243).                         *)
(***************************************************************************)
CmdPlay(s) == [s EXCEPT !.dd_current_end = dd_end]

CmdPause(s) == [s EXCEPT !.dd_current_end = s.dd_current]

\* (variant: no year end is computed)
CmdStepForwardToEnd(s) == [s EXCEPT !.dd_current_end = dd_end]
CmdStepForward(s) ==
    LET e == get_next_year_end(s.dd_current)
    IN  [s EXCEPT !.dd_current_end = IF DateGT(e, dd_end) THEN dd_end ELSE e]

\* (variant: the step counter is not restored)
LoadCheckpointKeepStep(s, i) ==
    [s EXCEPT !.sus_species_rasts = [run \in Runs |-> s.sus_checkpoint[i][run]],
              !.inf_species_rasts = [run \in Runs |-> s.inf_checkpoint[i][run]],
              !.unresolved_steps = <<>>]

\* copy of checkpoint slot i into the realizations and the step counter
LoadCheckpoint(s, i) ==
    [s EXCEPT !.sus_species_rasts = [run \in Runs |-> s.sus_checkpoint[i][run]],
              !.inf_species_rasts = [run \in Runs |-> s.inf_checkpoint[i][run]],
              !.current_step = s.step_checkpoint[i],
              !.unresolved_steps = <<>>]

\* (variant: the slot restored is the last one written)
CmdStepBackSameSlot(s) ==
    IF s.last_checkpoint - 1 >= 0
    THEN [LoadCheckpoint(s, s.last_checkpoint) EXCEPT
             !.last_checkpoint = @ - 1,
             !.dd_current_end = s.date_checkpoint[s.last_checkpoint],
             !.dd_current = s.date_checkpoint[s.last_checkpoint],
             !.after_loading_checkpoint = TRUE]
    ELSE s

CmdStepBack(s) ==
    IF s.last_checkpoint - 1 >= 0
    THEN IF s.last_checkpoint - 1 \in Slots
         THEN [LoadCheckpoint(s, s.last_checkpoint - 1) EXCEPT
                  !.last_checkpoint = @ - 1,
                  !.dd_current_end = s.date_checkpoint[s.last_checkpoint - 1],
                  !.dd_current = s.date_checkpoint[s.last_checkpoint - 1],
                  !.after_loading_checkpoint = TRUE]
         ELSE [s EXCEPT !.pc = "ub"]
    ELSE s

\* (variant: the year index is not tested against the number of slots)
CmdGoToNoRangeTest(s, g1, g2) ==
    IF g1 \in Slots /\ g1 <= s.last_checkpoint
    THEN [LoadCheckpoint(s, g1) EXCEPT
             !.dd_current = s.date_checkpoint[g1],
             !.dd_current_end = s.date_checkpoint[g1],
             !.after_loading_checkpoint = TRUE]
    ELSE [s EXCEPT !.dd_current_end = Date(g2 + dd_start.year - 1, 12, 31)]

\* g1 is steering_obj.goto_year as read at line 1207, g2 as read at line 1224
CmdGoTo(s, g1, g2) ==
    IF UnsignedGE(g1, num_checkpoints)
    THEN s
    ELSE IF UnsignedLE(g1, s.last_checkpoint)
    THEN [LoadCheckpoint(s, g1) EXCEPT
             !.dd_current = s.date_checkpoint[g1],
             !.dd_current_end = s.date_checkpoint[g1],
             !.after_loading_checkpoint = TRUE]
    ELSE [s EXCEPT !.dd_current_end = Date(g2 + dd_start.year - 1, 12, 31)]

\* whether CmdGoTo takes its "go forward" branch
GoToIsForward(s, g1) ==
    /\ UnsignedLess(g1, num_checkpoints)
    /\ UnsignedLess(s.last_checkpoint, g1)

\* the rasters of the GRASS mapset that a load message can name
GrassRasters == [name \in {<<"a">>, <<"b">>} |-> IF name = <<"a">> THEN 1 ELSE 0]

\* Treatments::clear_after_year: the entries of the years from year on
\* are dropped
clear_after_year(tmap, year) ==
    [y \in {k \in DOMAIN tmap : UnsignedLess(k, year)} |-> tmap[y]]

\* Treatments::add_treatment
add_treatment(tmap, year, tr) ==
    [y \in DOMAIN tmap \cup {year} |-> IF y = year THEN tr ELSE tmap[y]]

\* lines 1197-1200; year1 is steering_obj.treatment_year as read at line
\* 1198, name is steering_obj.load_data as read at line 1199, year2 is
\* steering_obj.treatment_year as read at line 1200;
\* raster_from_grass_float ends the process when the raster does not exist
CmdLoadData(s, year1, name, year2) ==
    IF name \in DOMAIN GrassRasters
    THEN [s EXCEPT !.treatments =
            add_treatment(clear_after_year(@, year1), year2, GrassRasters[name])]
    ELSE [s EXCEPT !.treatments = clear_after_year(@, year1), !.pc = "fatal"]

CmdChangeName(s) == s

CmdSyncRuns(s) == [s EXCEPT !.sync = TRUE]

\* (variant: the loop is not left)
CmdStopIgnored(s) == s
CmdStop(s) == [s EXCEPT !.pc = "done"]

\* what main() reads from the payload fields in an iteration: goto_year at
\* lines 1207 and 1224, treatment_year at lines 1198 and 1200, load_data at
\* line 1199; t1 is the state of the steering thread when the command is
\* taken, t2 and t3 are its states at the later reads
Reads(t1, t2, t3) ==
    [goto_year |-> <<t1.goto_year, t3.goto_year>>,
     treatment_year |-> <<t1.treatment_year, t3.treatment_year>>,
     load_data |-> t2.load_data]

ApplyCommand(s, c, r) ==
    IF c = "Play" THEN CmdPlay(s)
    ELSE IF c = "Pause" THEN CmdPause(s)
    ELSE IF c = "StepForward" THEN CmdStepForward(s)
    ELSE IF c = "StepBack" THEN CmdStepBack(s)
    ELSE IF c = "Stop" THEN CmdStop(s)
    ELSE IF c = "LoadData"
    THEN CmdLoadData(s, r.treatment_year[1], r.load_data, r.treatment_year[2])
    ELSE IF c = "ChangeName" THEN CmdChangeName(s)
    ELSE IF c = "GoTo" THEN CmdGoTo(s, r.goto_year[1], r.goto_year[2])
    ELSE IF c = "SyncRuns" THEN CmdSyncRuns(s)
    ELSE s

\* a message whose handling ends the process: an exception leaves the
\* thread function, or received_load is read past its end
EndsThread(message) ==
    MessageEffect(message,
                  [load_data |-> <<>>, basename |-> <<>>,
                   goto_year |-> 0, treatment_year |-> 0]).kind
        \in {"throw", "ub_year", "ub_name"}

\* the steering server of a session: the frames it can send, the vectors
\* line 312 splits them into, and whether a message of one of them ends
\* the process
Server(frames) ==
    [frames |-> frames,
     received |-> {split(frame, ";") : frame \in frames},
     ends |-> \E frame \in frames :
                \E i \in 1..Len(split(frame, ";")) :
                   EndsThread(split(frame, ";")[i])]

\* the steps the steering thread can take next while main() is inside an
\* iteration: it handles the message it is at, or receives a frame. (A
\* failed receive writes no payload field and is followed by no step that
\* ends the process: it has the same effect after the iteration.)
ThreadSteps(t, server) ==
    IF t.client_pc \in {"handle", "load_name", "store"}
    THEN ClientSteps(t)
    ELSE IF t.client_pc = "receive" /\ t.nframes < MaxFrames
    THEN {Received(t, vec) : vec \in server.received}
    ELSE {}

\* the steps among them that leave the process running
RunningSteps(t, server) ==
    {u \in ThreadSteps(t, server) : u.client_pc \notin {"terminate", "ub"}}

\* the states the steering thread can come to while main() is inside one
\* iteration, from the states of new (seen holds those already found)
RECURSIVE Reach(_, _, _)
Reach(seen, new, server) ==
    IF new = {}
    THEN seen
    ELSE Do(LAMBDA found :
              Reach(found,
                    UNION {RunningSteps(t, server) : t \in new} \ found,
                    server),
            seen \cup new)

\* the states from t on in which the thread has just written a field
AfterWrite(t, field, server) ==
    UNION {{u \in RunningSteps(x, server) : u[field] # x[field]} :
              x \in Reach({}, {t}, server)}

\* the states of the steering thread at the reads main() makes of the
\* payload fields in the iteration that has taken command c in state s,
\* the thread being in t1: at the first read (lines 1198, 1207), at the
\* read of load_data (line 1199) and at the last read (lines 1200, 1224).
\* A later read has a result of its own only after a write of the field
ReadStates(s, c, t1, server) ==
    IF c = "LoadData"
    THEN UNION {{<<t1, t2, t3>> :
                    t3 \in {t2} \cup AfterWrite(t2, "treatment_year", server)} :
                  t2 \in {t1} \cup AfterWrite(t1, "load_data", server)}
    ELSE IF c = "GoTo" /\ GoToIsForward(s, t1.goto_year)
    THEN {<<t1, t1, t3>> : t3 \in {t1} \cup AfterWrite(t1, "goto_year", server)}
    ELSE {<<t1, t1, t1>>}

\* whether the steering thread, from t on, can come to end the process
MayEnd(t, server) ==
    /\ t.client_pc \in {"receive", "handle", "load_name", "store"}
    /\ \/ server.ends /\ t.nframes < MaxFrames
       \/ \E i \in 1..Len(t.received_vec) : EndsThread(t.received_vec[i])

\* the states in which the steering thread has ended the process, from t on
ThreadEnds(t, server) ==
    IF MayEnd(t, server)
    THEN {e \in UNION {ThreadSteps(x, server) : x \in Reach({}, {t}, server)} :
             e.client_pc \in {"terminate", "ub"}}
    ELSE {}

(***************************************************************************)
(* main(): the step branch of an iteration (lines 1245-1485).              *)
(***************************************************************************)
\* (variant: the test against the start date is missing)
StepGuardNoStartTest(s) == DateLE(s.dd_current, s.dd_current_end)
StepGuard(s) ==
    DateGT(s.dd_current_end, dd_start) /\ DateLE(s.dd_current, s.dd_current_end)

RecordStep(s) ==
    [s EXCEPT !.unresolved_steps = Append(@, s.current_step),
              !.unresolved_dates = Append(@, s.dd_current),
              !.dd_current_last_day = get_last_day_of_month(s.dd_current),
              !.recorded = TRUE]

all_infected(susceptible) == ~(susceptible > 0)

generate_name(base, date) == [base |-> base, date |-> date]

\* int / int of C++ (truncation toward zero)
TruncDiv(a, b) == IF a >= 0 THEN a \div b ELSE 0 - ((0 - a) \div b)

\* simulation_year (the clock is never before the start date)
SimulationYear(s) == s.dd_current.year - dd_start.year

\* Simulation::remove: where the temperature is below the lethal one the
\* infected hosts go back to the susceptible ones
remove(r, cold) == IF cold THEN [r EXCEPT !.sus = r.sus + r.inf, !.inf = 0] ELSE r

\* Treatments::apply_treatment_host and apply_treatment_infected (ratio)
apply_treatment_host(tmap, year, r) ==
    IF year \in DOMAIN tmap
    THEN [r EXCEPT !.inf = r.inf - r.inf * tmap[year],
                   !.sus = r.sus - r.sus * tmap[year]]
    ELSE r
apply_treatment_infected(tmap, year, v) ==
    IF year \in DOMAIN tmap THEN v - v * tmap[year] ELSE v

\* the cohorts that mortality reaches in simulation year y, if any; the
\* test of lines 1309 and 1361 is made in unsigned: first_year_to_die - 1
\* is 2^32 - 1 for a time lag of 0
MortalityReached(y) ==
    IF opt.first_year_to_die = 0 THEN y = 0 - 1
    ELSE y < 0 \/ y >= opt.first_year_to_die - 1
MaxIndex(y) == y - (opt.first_year_to_die - 1)

\* Simulation::generate and Simulation::disperse: "amount" dispersers
\* establish in the cell, if there is an infected host to produce them
\* and a susceptible host to be infected
disperse(r, current_age, amount) ==
    IF current_age \notin Ages
    THEN [r EXCEPT !.ub = TRUE]
    ELSE LET n == IF r.inf > 0 /\ r.sus > 0 THEN Min(amount, r.sus) ELSE 0
         IN  [r EXCEPT !.sus = r.sus - n,
                       !.inf = r.inf + n,
                       !.cohort[current_age] = @ + n]

\* lines 1293-1300: removal of dispersers, once in a batch
LethalStep(s, r, date) ==
    IF opt.use_lethal_temperature /\ ~r.lethality_done
       /\ date.month = opt.lethal_temperature_month
    THEN [remove(r, opt.actual_temperatures[SimulationYear(s) + 1]) EXCEPT
             !.lethality_done = TRUE,
             !.removed = @ + 1]
    ELSE r

\* lines 1304-1316: the treatment of the cohorts that mortality reaches
TreatCohorts(s, h) ==
    IF opt.mortality /\ MortalityReached(SimulationYear(s))
    THEN IF MaxIndex(SimulationYear(s)) \in Ages
         THEN [h EXCEPT !.cohort = [age \in Ages |->
                           IF age <= MaxIndex(SimulationYear(s))
                           THEN apply_treatment_infected(
                                    s.treatments, s.dd_current.year, @[age])
                           ELSE @[age]]]
         ELSE [h EXCEPT !.ub = TRUE]
    ELSE h

\* lines 1301-1318: the treatment, once in a batch
TreatmentStep(s, r, date) ==
    IF use_treatments /\ ~r.treatments_done /\ date.month = opt.treatment_month
    THEN [Do(LAMBDA h : TreatCohorts(s, h),
             apply_treatment_host(s.treatments, date.year, r)) EXCEPT
             !.treatments_done = TRUE,
             !.treated = @ + 1]
    ELSE r

\* lines 1319-1334: generate and disperse, in the season only; the weather
\* coefficient is the one read at lines 1273-1282 for entry i of the
\* unresolved steps
SpreadStep(s, r, i, amount) ==
    IF ~month_in_season(s.unresolved_dates[i].month)
    THEN r
    ELSE [disperse(r, s.dd_current.year - dd_start.year, amount) EXCEPT
             !.spread = Append(@, [date |-> s.unresolved_dates[i],
                                   weather |-> s.unresolved_steps[i]])]

\* the body of the loop over the unresolved steps (lines 1290-1335), for
\* entry i of the buffers; amount is the number of dispersers that
\* generate and disperse let establish at this entry
RunStep(s, r, i, amount) ==
    Do(LAMBDA c : SpreadStep(s, c, i, amount),
       Do(LAMBDA b : TreatmentStep(s, b, s.unresolved_dates[i]),
          Do(LAMBDA a : LethalStep(s, a, s.unresolved_dates[i]), r)))

\* the loop from entry i on, with a disperser establishing at the entries
\* of K
RECURSIVE RunPass(_, _, _, _)
RunPass(s, r, i, K) ==
    IF i > Len(s.unresolved_steps) THEN r
    ELSE RunPass(s, Do(LAMBDA x : RunStep(s, x, i, IF i \in K THEN opt.establish ELSE 0),
                       r),
                 i + 1, K)

\* the state a worker starts with; removed, treated and spread record the
\* calls of remove, of apply_treatment_host and of generate/disperse that
\* the worker makes
WorkerStart(s, run) ==
    [inf |-> s.inf_species_rasts[run],
     sus |-> s.sus_species_rasts[run],
     cohort |-> s.inf_species_cohort_rasts[run],
     lethality_done |-> FALSE,
     treatments_done |-> FALSE,
     ub |-> FALSE,
     removed |-> 0,
     treated |-> 0,
     spread |-> <<>>]

\* the work of one worker of the parallel pass when the random draws let a
\* disperser establish at the entries of K
RunWorker(s, run, K) == RunPass(s, WorkerStart(s, run), 1, K)

\* the results the loop from entry i on can have, from the states of R:
\* at every entry the random draws let a disperser establish, or none
RECURSIVE RunPassAny(_, _, _)
RunPassAny(s, R, i) ==
    IF i > Len(s.unresolved_steps) THEN R
    ELSE RunPassAny(s,
                    Do(LAMBDA X : {RunStep(s, p[1], i, p[2]) :
                                      p \in X \X {0, opt.establish}},
                       R),
                    i + 1)

\* the results the worker of a run can have: RunWorker(s, run, K) for the
\* sets K of entries
RunOutcomes(s, run) == RunPassAny(s, {WorkerStart(s, run)}, 1)

\* the results the workers of the runs 0..n can have together
RECURSIVE PassOutcomes(_, _)
PassOutcomes(s, n) ==
    IF n < 0 THEN {<<>>}
    ELSE {Append(p[1], p[2]) : p \in PassOutcomes(s, n - 1) \X RunOutcomes(s, n)}

StoreResults(s, res) ==
    [s EXCEPT !.inf_species_rasts = [run \in Runs |-> res[run].inf],
              !.sus_species_rasts = [run \in Runs |-> res[run].sus],
              !.inf_species_cohort_rasts = [run \in Runs |-> res[run].cohort],
              !.unresolved_steps = IF \E run \in Runs : res[run].ub THEN @ ELSE <<>>,
              !.unresolved_dates = IF \E run \in Runs : res[run].ub THEN @ ELSE <<>>,
              !.pc = IF \E run \in Runs : res[run].ub THEN "ub" ELSE s.pc]

\* the parallel pass over the realizations, then the buffers are cleared
\* (lines 1337-1338, which a worker with undefined behaviour does not let
\* main() reach); disp gives the result of the worker of every run
ParallelPass(s, disp) == StoreResults(s, disp)

\* (variant: only the index is updated)
SaveCheckpointStale(s) ==
    [s EXCEPT !.last_checkpoint = s.dd_current.year - dd_start.year + 1]
\* lines 1340-1346
SaveCheckpoint(s) ==
    IF SimulationYear(s) + 1 \in Slots
    THEN [s EXCEPT !.last_checkpoint = SimulationYear(s) + 1,
                   !.sus_checkpoint[SimulationYear(s) + 1] = s.sus_species_rasts,
                   !.inf_checkpoint[SimulationYear(s) + 1] = s.inf_species_rasts,
                   !.step_checkpoint[SimulationYear(s) + 1] = s.current_step,
                   !.date_checkpoint[SimulationYear(s) + 1] = s.dd_current]
    ELSE [s EXCEPT !.last_checkpoint = SimulationYear(s) + 1, !.pc = "ub"]

\* infected_to_dead_rate * raster, converted to the integer raster
DeadInCohort(v) ==
    TruncDiv(v * opt.infected_to_dead_rate[1], opt.infected_to_dead_rate[2])

RECURSIVE SumTo(_, _)
SumTo(f, n) == IF n < 0 THEN 0 ELSE f[n] + SumTo(f, n - 1)

\* the dead of a realization: the sum over the cohorts 0..max_index
DeadOfRun(s, run) ==
    SumTo([age \in Ages |-> DeadInCohort(s.inf_species_cohort_rasts[run][age])],
          MaxIndex(SimulationYear(s)))

\* (variant: the cohorts are aged from the first year on)
MortalityNoLag(s) ==
    IF ~opt.mortality
    THEN s
    ELSE [s EXCEPT
            !.dead_in_current_year = [run \in Runs |->
                SumTo([age \in Ages |->
                          DeadInCohort(s.inf_species_cohort_rasts[run][age])],
                      SimulationYear(s))],
            !.inf_species_cohort_rasts = [run \in Runs |-> [age \in Ages |->
                IF age <= SimulationYear(s)
                THEN @[run][age] - DeadInCohort(@[run][age])
                ELSE @[run][age]]],
            !.inf_species_rasts = [run \in Runs |-> @[run] -
                SumTo([age \in Ages |->
                          DeadInCohort(s.inf_species_cohort_rasts[run][age])],
                      SimulationYear(s))]]

\* lines 1347-1374
Mortality(s) ==
    IF ~(opt.mortality /\ MortalityReached(SimulationYear(s)))
    THEN s
    ELSE IF MaxIndex(SimulationYear(s)) \notin Ages
    THEN [s EXCEPT !.pc = "ub"]
    ELSE [s EXCEPT
            !.dead_in_current_year = [run \in Runs |-> DeadOfRun(s, run)],
            !.inf_species_cohort_rasts = [run \in Runs |-> [age \in Ages |->
                IF age <= MaxIndex(SimulationYear(s))
                THEN @[run][age] - DeadInCohort(@[run][age])
                ELSE @[run][age]]],
            !.inf_species_rasts = [run \in Runs |-> @[run] - DeadOfRun(s, run)]]

\* (variant: the flag is consumed, nothing is copied)
SyncRunsNoCopy(s) == [s EXCEPT !.sync = FALSE]

\* lines 1383-1398
SyncRuns(s) ==
    IF s.sync
    THEN [s EXCEPT !.sus_species_rasts = [run \in Runs |-> s.sus_species_rasts[0]],
                   !.inf_species_rasts = [run \in Runs |-> s.inf_species_rasts[0]],
                   !.sync = FALSE]
    ELSE s

RECURSIVE SumRuns(_, _)
SumRuns(f, n) == IF n < 0 THEN 0 ELSE f[n] + SumRuns(f, n - 1)

\* the mean raster (lines 1406-1413)
Aggregate(s) ==
    IF (opt.output_series /\ ~opt.series_as_single_run) \/ opt.stddev_series
    THEN [s EXCEPT !.I_species_rast =
            TruncDiv(SumRuns(s.inf_species_rasts, opt.num_runs - 1), opt.num_runs)]
    ELSE s

\* the probability raster (lines 1446-1453)
Probability(s) ==
    TruncDiv(SumRuns([run \in Runs |-> IF s.inf_species_rasts[run] # 0 THEN 1 ELSE 0],
                     opt.num_runs - 1) * 100,
             opt.num_runs)

\* the standard deviation raster (lines 1432-1438): the mean of the squared
\* differences from the mean raster, then the square root cut to an int
StdDev(s) ==
    LET squares == [run \in Runs |-> (s.inf_species_rasts[run] - s.I_species_rast)
                                      * (s.inf_species_rasts[run] - s.I_species_rast)]
        mean == TruncDiv(SumRuns(squares, opt.num_runs - 1), opt.num_runs)
    IN  CHOOSE root \in 0..mean : root * root <= mean /\ (root + 1) * (root + 1) > mean

\* the answers of the options output_series, stddev_series,
\* probability_series and dead_series: the basenames of the output series
output_series == <<"o", "u", "t">>
stddev_series == <<"s", "d">>
probability_series == <<"p", "r", "o", "b">>
dead_series == <<"d", "e", "a", "d">>

SeriesName(s, base) == generate_name(base, s.dd_current_last_day)

\* lines 1414-1425: the series raster is written
WriteSeriesRaster(s) ==
    IF opt.output_series
    THEN [s EXCEPT !.written = Append(@, [name |-> SeriesName(s, output_series),
                                          value |-> IF opt.series_as_single_run
                                                    THEN s.inf_species_rasts[0]
                                                    ELSE s.I_species_rast])]
    ELSE s

\* lines 1426-1428: the series raster is announced, its name is kept
AnnounceSeries(s) ==
    IF opt.output_series
    THEN [s EXCEPT !.sent = IF steering
                            THEN Append(@, [kind |-> "output",
                                            name |-> SeriesName(s, output_series)])
                            ELSE @,
                   !.last_name = SeriesName(s, output_series)]
    ELSE s

\* lines 1414-1430
WriteSeries(s) == Do(AnnounceSeries, WriteSeriesRaster(s))

\* lines 1431-1444: the raster is written, the client is not told
WriteStdDev(s) ==
    IF opt.stddev_series
    THEN [s EXCEPT !.written = Append(@, [name |-> SeriesName(s, stddev_series),
                                          value |-> StdDev(s)])]
    ELSE s

\* lines 1445-1456: the probability raster is written
WriteProbabilityRaster(s) ==
    IF opt.probability_series
    THEN [s EXCEPT !.written = Append(@, [name |-> SeriesName(s, probability_series),
                                          value |-> Probability(s)])]
    ELSE s

\* lines 1457-1458: the probability raster is announced
AnnounceProbability(s) ==
    IF opt.probability_series /\ steering
    THEN [s EXCEPT !.sent = Append(@, [kind |-> "output",
                                       name |-> SeriesName(s, probability_series)])]
    ELSE s

\* lines 1445-1460
WriteProbability(s) == Do(AnnounceProbability, WriteProbabilityRaster(s))

\* lines 1461-1470
WriteDead(s) ==
    IF opt.mortality /\ opt.dead_series
    THEN [s EXCEPT !.accumulated_dead = @ + s.dead_in_current_year[0],
                   !.written = Append(@, [name |-> SeriesName(s, dead_series),
                                          value |-> s.accumulated_dead
                                                    + s.dead_in_current_year[0]])]
    ELSE s

\* lines 1383-1470 of the batch: sync, aggregation, outputs
CloseOutputs(s) ==
    [Do(WriteDead, Do(WriteProbability, Do(WriteStdDev, Do(WriteSeries,
        Do(Aggregate, SyncRuns(s)))))) EXCEPT
        !.closed = Append(@, s.dd_current.year)]

\* (variant: the temperatures are counted after the checkpoint is saved)
YearClosingLateTest(s, disp) ==
    IF opt.use_lethal_temperature
       /\ SimulationYear(s) >= Len(opt.actual_temperatures)
    THEN [SaveCheckpoint(s) EXCEPT !.pc = "fatal"]
    ELSE Then(CloseOutputs,
              Then(Mortality, Then(SaveCheckpoint, ParallelPass(s, disp))))

\* the year-closing batch (lines 1260-1471); disp gives, for every run, the
\* result of its worker
YearClosing(s, disp) ==
    IF opt.use_lethal_temperature
       /\ SimulationYear(s) >= Len(opt.actual_temperatures)
    THEN [s EXCEPT !.pc = "fatal"]
    ELSE Then(CloseOutputs,
              Then(Mortality, Then(SaveCheckpoint, ParallelPass(s, disp))))

\* (variant: the end test is missing)
AdvanceClockNoEndTest(s) ==
    [s EXCEPT !.after_loading_checkpoint = FALSE,
              !.dd_current = increased_by_month(@),
              !.current_step = @ + 1]

\* lines 1472-1478: the clock goes to the next sub-step
TickClock(s) ==
    [s EXCEPT !.after_loading_checkpoint = FALSE,
              !.dd_current = increased_by_month(@),
              !.current_step = @ + 1]

\* lines 1479-1484: past the end the client is told the last name, or the
\* loop is left
AnnounceLast(s) ==
    IF DateGT(s.dd_current, dd_end)
    THEN IF steering
         THEN [s EXCEPT !.sent = Append(@, [kind |-> "last", name |-> s.last_name])]
         ELSE [s EXCEPT !.pc = "done"]
    ELSE s

\* lines 1472-1484
AdvanceClock(s) == Do(AnnounceLast, TickClock(s))

\* (variant: the flag set by a restore is not tested)
ClosesYearAfterRestore(s) == is_last_month_of_year(s.dd_current)
ClosesYear(s) ==
    is_last_month_of_year(s.dd_current) /\ ~s.after_loading_checkpoint

\* lines 1251-1484, after the step was recorded
AfterRecordStep(s, disp) ==
    IF all_infected(S_species_rast)
    THEN [s EXCEPT !.pc = "done"]
    ELSE Then(AdvanceClock, IF ClosesYear(s) THEN YearClosing(s, disp) ELSE s)

StepBody(s, disp) == Do(LAMBDA x : AfterRecordStep(x, disp), RecordStep(s))

\* lines 1245-1489, after the command was applied
AfterCommand(s, disp) ==
    IF s.pc # "loop" THEN s
    ELSE IF StepGuard(s) THEN StepBody(s, disp)
    ELSE s

\* the iteration that applies its command to a reaches the parallel region
ReachesPass(a) ==
    /\ a.pc = "loop"
    /\ StepGuard(a)
    /\ ~all_infected(S_species_rast)
    /\ ClosesYear(a)
    /\ ~(opt.use_lethal_temperature
         /\ SimulationYear(a) >= Len(opt.actual_temperatures))

\* the choices of the stochastic dispersal in an iteration whose command has
\* led to s: the results the workers can have in the batch that the
\* iteration runs once its step is recorded
DispChoices(s) ==
    IF ReachesPass(s)
    THEN {[run \in Runs |-> p[run + 1]] :
             p \in PassOutcomes(RecordStep(s), opt.num_runs - 1)}
    ELSE {[run \in Runs |-> WorkerStart(s, run)]}

(***************************************************************************)
(* main(): one iteration of the loop, and the end of main().               *)
(***************************************************************************)
\* the scheduler is idle at the first sub-step of a year of the simulation
PausedAtYearStart ==
    /\ pc = "loop"
    /\ ~StepGuard(Cur)
    /\ dd_current.month = 1
    /\ dd_current.day = 1
    /\ dd_current.year <= dd_end.year

\* steering_obj.get() has returned g: the state of the steering thread
\* then, the command being out of the queue
Taken(g) ==
    [ClientState EXCEPT
        !.command_queue = g.queue,
        !.payloads = IF g.cmd \in {"GoTo", "LoadData"} THEN Tail(@) ELSE @]

\* the loop variables take the values of n
Becomes(n) ==
    /\ pc' = n.pc
    /\ dd_current' = n.dd_current
    /\ dd_current_end' = n.dd_current_end
    /\ dd_current_last_day' = n.dd_current_last_day
    /\ current_step' = n.current_step
    /\ unresolved_steps' = n.unresolved_steps
    /\ unresolved_dates' = n.unresolved_dates
    /\ after_loading_checkpoint' = n.after_loading_checkpoint
    /\ sync' = n.sync
    /\ sus_species_rasts' = n.sus_species_rasts
    /\ inf_species_rasts' = n.inf_species_rasts
    /\ inf_species_cohort_rasts' = n.inf_species_cohort_rasts
    /\ dead_in_current_year' = n.dead_in_current_year
    /\ accumulated_dead' = n.accumulated_dead
    /\ I_species_rast' = n.I_species_rast
    /\ treatments' = n.treatments
    /\ last_checkpoint' = n.last_checkpoint
    /\ sus_checkpoint' = n.sus_checkpoint
    /\ inf_checkpoint' = n.inf_checkpoint
    /\ step_checkpoint' = n.step_checkpoint
    /\ date_checkpoint' = n.date_checkpoint
    /\ last_name' = n.last_name
    /\ sent' = n.sent
    /\ written' = n.written
    /\ recorded' = n.recorded

(***************************************************************************)
(* main(): the statements of an iteration one after another, so that the   *)
(* states main() passes through inside an iteration are known: the         *)
(* steering thread can end the process in any of them.                     *)
(***************************************************************************)
\* main() is in state s and has passed through no other
Started(s) == [at |-> s, through |-> {s}]

\* the next statement F: it is reached unless the process has ended or the
\* loop was left before it
More(F(_), w) ==
    Do(LAMBDA v :
         IF v.at.pc # "loop"
         THEN v
         ELSE Do(LAMBDA x : [at |-> x, through |-> v.through \cup {x}], F(v.at)),
       w)

\* lines 1180-1185 and 1215-1219: the loop over the runs that copies slot i
\* (line 1184 is in the loop of the StepBack branch only)
RECURSIVE RestoreRuns(_, _, _, _)
RestoreRuns(w, i, run, clears) ==
    IF run >= opt.num_runs
    THEN w
    ELSE RestoreRuns(
             More(LAMBDA x : IF clears THEN [x EXCEPT !.unresolved_steps = <<>>] ELSE x,
              More(LAMBDA x : [x EXCEPT !.current_step = x.step_checkpoint[i]],
               More(LAMBDA x : [x EXCEPT !.inf_species_rasts[run] =
                                            x.inf_checkpoint[i][run]],
                More(LAMBDA x : [x EXCEPT !.sus_species_rasts[run] =
                                             x.sus_checkpoint[i][run]],
                     w)))),
             i, run + 1, clears)

\* lines 1176-1188, statement by statement
StepBackRun(w) ==
    IF w.at.last_checkpoint - 1 >= 0
    THEN IF w.at.last_checkpoint - 1 \in Slots
         THEN More(LAMBDA x : [x EXCEPT !.after_loading_checkpoint = TRUE],
               RestoreRuns(
                More(LAMBDA x : [x EXCEPT !.dd_current =
                                             x.date_checkpoint[x.last_checkpoint]],
                 More(LAMBDA x : [x EXCEPT !.dd_current_end =
                                              x.date_checkpoint[x.last_checkpoint]],
                  More(LAMBDA x : [x EXCEPT !.last_checkpoint = @ - 1], w))),
                w.at.last_checkpoint - 1, 0, TRUE))
         ELSE More(LAMBDA x : [x EXCEPT !.pc = "ub"], w)
    ELSE w

\* lines 1207-1225, statement by statement
GoToRun(w, g1, g2) ==
    IF UnsignedGE(g1, num_checkpoints)
    THEN w
    ELSE IF UnsignedLE(g1, w.at.last_checkpoint)
    THEN More(LAMBDA x : [x EXCEPT !.after_loading_checkpoint = TRUE],
          RestoreRuns(
           More(LAMBDA x : [x EXCEPT !.unresolved_steps = <<>>],
            More(LAMBDA x : [x EXCEPT !.dd_current_end = x.date_checkpoint[g1]],
             More(LAMBDA x : [x EXCEPT !.dd_current = x.date_checkpoint[g1]], w))),
           g1, 0, FALSE))
    ELSE More(LAMBDA x : [x EXCEPT !.dd_current_end =
                                      Date(g2 + dd_start.year - 1, 12, 31)], w)

\* lines 1198-1200, statement by statement
LoadDataRun(w, year1, name, year2) ==
    More(LAMBDA x : IF name \in DOMAIN GrassRasters
                    THEN [x EXCEPT !.treatments =
                                      add_treatment(@, year2, GrassRasters[name])]
                    ELSE [x EXCEPT !.pc = "fatal"],
     More(LAMBDA x : [x EXCEPT !.treatments = clear_after_year(@, year1)], w))

\* the branch of command c (lines 1164-1243), statement by statement, with
\* the payload fields read as r
CommandRun(w, c, r) ==
    IF c = "Play" THEN More(CmdPlay, w)
    ELSE IF c = "Pause" THEN More(CmdPause, w)
    ELSE IF c = "StepForward"
    THEN More(LAMBDA x : [x EXCEPT !.dd_current_end =
                                      IF DateGT(@, dd_end) THEN dd_end ELSE @],
          More(LAMBDA x : [x EXCEPT !.dd_current_end =
                                       get_next_year_end(x.dd_current)], w))
    ELSE IF c = "StepBack" THEN StepBackRun(w)
    ELSE IF c = "Stop" THEN More(CmdStop, w)
    ELSE IF c = "LoadData"
    THEN LoadDataRun(w, r.treatment_year[1], r.load_data, r.treatment_year[2])
    ELSE IF c = "GoTo" THEN GoToRun(w, r.goto_year[1], r.goto_year[2])
    ELSE IF c = "SyncRuns" THEN More(CmdSyncRuns, w)
    ELSE w

\* lines 1247-1249, statement by statement
RecordRun(w) ==
    More(LAMBDA x : [x EXCEPT !.dd_current_last_day =
                                 get_last_day_of_month(x.dd_current)],
     More(LAMBDA x : [x EXCEPT !.unresolved_dates = Append(@, x.dd_current)],
      More(LAMBDA x : [x EXCEPT !.unresolved_steps = Append(@, x.current_step),
                                !.recorded = TRUE], w)))

\* the rasters of a worker
Rasters(r) == [inf |-> r.inf, sus |-> r.sus, cohort |-> r.cohort]

\* lines 1303-1316: the rasters of a worker after apply_treatment_host and
\* after apply_treatment_infected on each cohort
TreatmentStates(s, r, date) ==
    IF use_treatments /\ ~r.treatments_done /\ date.month = opt.treatment_month
    THEN Do(LAMBDA h :
              {h} \cup
              (IF opt.mortality /\ MortalityReached(SimulationYear(s))
                  /\ MaxIndex(SimulationYear(s)) \in Ages
               THEN {[h EXCEPT !.cohort = [age \in Ages |->
                                  IF age <= last
                                  THEN apply_treatment_infected(
                                           s.treatments, s.dd_current.year, @[age])
                                  ELSE @[age]]] :
                        last \in 0..MaxIndex(SimulationYear(s))}
               ELSE {}),
            apply_treatment_host(s.treatments, date.year, r))
    ELSE {}

\* the states a worker can be in between two statements of its loop over
\* the unresolved steps (lines 1290-1335), from entry i on: R holds the
\* states it can be in at the head of the pass for entry i
RECURSIVE WorkerPass(_, _, _, _)
WorkerPass(s, R, i, seen) ==
    IF i > Len(s.unresolved_steps) \/ R = {}
    THEN seen \cup R
    ELSE Do(LAMBDA L :
          Do(LAMBDA T :
           Do(LAMBDA D :
                WorkerPass(s, {r \in D : ~r.ub}, i + 1,
                           seen \cup R \cup L \cup T \cup D
                           \cup UNION {TreatmentStates(s, r, s.unresolved_dates[i]) :
                                          r \in L}),
              {SpreadStep(s, p[1], i, p[2]) : p \in T \X {0, opt.establish}}),
            {TreatmentStep(s, r, s.unresolved_dates[i]) : r \in L}),
          {LethalStep(s, r, s.unresolved_dates[i]) : r \in R})

\* the rasters a realization can hold while its worker runs
WorkerStates(s, run) ==
    {Rasters(r) : r \in WorkerPass(s, {WorkerStart(s, run)}, 1, {})}

\* the states of the parallel region (lines 1285-1336) with the workers of
\* running under way, each between two of its statements
RegionStates(s, running) ==
    Do(LAMBDA W :
         {[s EXCEPT
             !.inf_species_rasts =
                 [run \in Runs |-> IF run \in running THEN f[run].inf ELSE @[run]],
             !.sus_species_rasts =
                 [run \in Runs |-> IF run \in running THEN f[run].sus ELSE @[run]],
             !.inf_species_cohort_rasts =
                 [run \in Runs |-> IF run \in running THEN f[run].cohort ELSE @[run]]] :
            f \in {h \in [Runs -> UNION {W[run] : run \in Runs}] :
                      \A run \in Runs : h[run] \in W[run]}},
       [run \in Runs |-> WorkerStates(s, run)])

\* the parallel region: main() waits in it for the workers, whose results
\* are those of disp
RegionRun(w, disp) ==
    IF w.at.pc # "loop"
    THEN w
    ELSE Do(LAMBDA x : [at |-> x,
                        through |-> w.through \cup RegionStates(w.at, Runs) \cup {x}],
            [w.at EXCEPT
                !.inf_species_rasts = [run \in Runs |-> disp[run].inf],
                !.sus_species_rasts = [run \in Runs |-> disp[run].sus],
                !.inf_species_cohort_rasts = [run \in Runs |-> disp[run].cohort],
                !.pc = IF \E run \in Runs : disp[run].ub THEN "ub" ELSE @])

\* lines 1340-1346, statement by statement
RECURSIVE SaveRuns(_, _)
SaveRuns(w, run) ==
    IF run >= opt.num_runs
    THEN w
    ELSE SaveRuns(
             More(LAMBDA x : [x EXCEPT !.date_checkpoint[x.last_checkpoint] =
                                          x.dd_current],
              More(LAMBDA x : [x EXCEPT !.step_checkpoint[x.last_checkpoint] =
                                           x.current_step],
               More(LAMBDA x : [x EXCEPT !.inf_checkpoint[x.last_checkpoint][run] =
                                            x.inf_species_rasts[run]],
                More(LAMBDA x : IF x.last_checkpoint \in Slots
                                THEN [x EXCEPT
                                         !.sus_checkpoint[x.last_checkpoint][run] =
                                             x.sus_species_rasts[run]]
                                ELSE [x EXCEPT !.pc = "ub"],
                 More(LAMBDA x : [x EXCEPT !.last_checkpoint = SimulationYear(x) + 1],
                      w))))),
             run + 1)

\* lines 1365-1371 for one run, from cohort age on: the states of its dead
\* raster, its cohorts and its infected raster between two statements
RECURSIVE MortalityOfRun(_, _, _)
MortalityOfRun(v, age, last) ==
    IF age > last
    THEN {v, [v EXCEPT !.inf = @ - v.dead]}
    ELSE {v, [v EXCEPT !.cohort[age] = @ - DeadInCohort(v.cohort[age])]}
         \cup MortalityOfRun([v EXCEPT !.cohort[age] = @ - DeadInCohort(v.cohort[age]),
                                       !.dead = @ + DeadInCohort(v.cohort[age])],
                             age + 1, last)

\* the states of the parallel loop of lines 1363-1372 with the runs under
\* way, each between two of its statements
MortalityStates(s) ==
    Do(LAMBDA M :
         {[s EXCEPT
             !.dead_in_current_year = [run \in Runs |-> f[run].dead],
             !.inf_species_cohort_rasts = [run \in Runs |-> f[run].cohort],
             !.inf_species_rasts = [run \in Runs |-> f[run].inf]] :
            f \in {h \in [Runs -> UNION {M[run] : run \in Runs}] :
                      \A run \in Runs : h[run] \in M[run]}},
       [run \in Runs |->
           {[dead |-> s.dead_in_current_year[run],
             cohort |-> s.inf_species_cohort_rasts[run],
             inf |-> s.inf_species_rasts[run]]}
           \cup MortalityOfRun([dead |-> 0,
                                cohort |-> s.inf_species_cohort_rasts[run],
                                inf |-> s.inf_species_rasts[run]],
                               0, MaxIndex(SimulationYear(s)))])

\* lines 1347-1374
MortalityRun(w) ==
    IF w.at.pc # "loop"
       \/ ~(opt.mortality /\ MortalityReached(SimulationYear(w.at)))
    THEN w
    ELSE IF MaxIndex(SimulationYear(w.at)) \notin Ages
    THEN More(Mortality, w)
    ELSE [at |-> Mortality(w.at),
          through |-> w.through \cup MortalityStates(w.at) \cup {Mortality(w.at)}]

\* lines 1386-1391, statement by statement
RECURSIVE CopyRuns(_, _)
CopyRuns(w, run) ==
    IF run >= opt.num_runs
    THEN w
    ELSE CopyRuns(
             More(LAMBDA x : [x EXCEPT !.inf_species_rasts[run] = x.inf_species_rasts[0]],
              More(LAMBDA x : [x EXCEPT !.sus_species_rasts[run] =
                                           x.sus_species_rasts[0]], w)),
             run + 1)

\* lines 1383-1392
SyncRun(w) ==
    IF w.at.pc = "loop" /\ w.at.sync
    THEN More(LAMBDA x : [x EXCEPT !.sync = FALSE], CopyRuns(w, 1))
    ELSE w

\* lines 1410-1411, statement by statement
RECURSIVE AddRuns(_, _)
AddRuns(w, run) ==
    IF run >= opt.num_runs
    THEN w
    ELSE AddRuns(More(LAMBDA x : [x EXCEPT !.I_species_rast =
                                              @ + x.inf_species_rasts[run]], w),
                 run + 1)

\* lines 1406-1413
AggregateRun(w) ==
    IF (opt.output_series /\ ~opt.series_as_single_run) \/ opt.stddev_series
    THEN More(LAMBDA x : [x EXCEPT !.I_species_rast = TruncDiv(@, opt.num_runs)],
          AddRuns(More(LAMBDA x : [x EXCEPT !.I_species_rast = 0], w), 0))
    ELSE w

\* lines 1426-1427: the series raster is announced
SendSeries(s) ==
    IF opt.output_series /\ steering
    THEN [s EXCEPT !.sent = Append(@, [kind |-> "output",
                                       name |-> SeriesName(s, output_series)])]
    ELSE s

\* line 1428: the name of the series raster is kept
KeepName(s) ==
    IF opt.output_series
    THEN [s EXCEPT !.last_name = SeriesName(s, output_series)]
    ELSE s

\* line 1462: the dead of the year are added to the dead to date
AddDead(s) ==
    IF opt.mortality /\ opt.dead_series
    THEN [s EXCEPT !.accumulated_dead = @ + s.dead_in_current_year[0]]
    ELSE s

\* lines 1463-1469: the raster of the dead is written; the batch of the
\* year is closed
WriteDeadRaster(s) ==
    [(IF opt.mortality /\ opt.dead_series
      THEN [s EXCEPT !.written = Append(@, [name |-> SeriesName(s, dead_series),
                                            value |-> s.accumulated_dead])]
      ELSE s)
     EXCEPT !.closed = Append(@, s.dd_current.year)]

\* lines 1472-1484, statement by statement
ClockRun(w) ==
    More(AnnounceLast,
     More(LAMBDA x : [x EXCEPT !.current_step = @ + 1],
      More(LAMBDA x : [x EXCEPT !.dd_current = increased_by_month(@)],
       More(LAMBDA x : [x EXCEPT !.after_loading_checkpoint = FALSE], w))))

\* lines 1337-1338, statement by statement
ClearRun(w) ==
    More(LAMBDA x : [x EXCEPT !.unresolved_dates = <<>>],
     More(LAMBDA x : [x EXCEPT !.unresolved_steps = <<>>], w))

\* lines 1415-1470, statement by statement
OutputsRun(w) ==
    More(WriteDeadRaster,
     More(AddDead,
      More(AnnounceProbability,
       More(WriteProbabilityRaster,
        More(WriteStdDev,
         More(KeepName,
          More(SendSeries,
           More(WriteSeriesRaster, w))))))))

\* lines 1337-1484: the batch after the parallel region, and the clock
BatchRun(w) ==
    Do(ClockRun,
     Do(OutputsRun,
      Do(AggregateRun,
       Do(SyncRun,
        Do(MortalityRun,
         Do(LAMBDA x : SaveRuns(x, 0), ClearRun(w)))))))

\* lines 1246-1485: the step branch
StepRun(w, disp) ==
    IF w.at.pc # "loop" \/ ~StepGuard(w.at)
    THEN w
    ELSE Do(LAMBDA rec :
              IF all_infected(S_species_rast)
              THEN More(LAMBDA x : [x EXCEPT !.pc = "done"], rec)
              ELSE IF ~ClosesYear(rec.at)
              THEN ClockRun(rec)
              ELSE IF opt.use_lethal_temperature
                      /\ SimulationYear(rec.at) >= Len(opt.actual_temperatures)
              THEN More(LAMBDA x : [x EXCEPT !.pc = "fatal"], rec)
              ELSE Do(BatchRun, RegionRun(rec, disp)),
            RecordRun(w))

\* the iteration that takes command c in state s and reads the payload
\* fields as r (lines 1161-1489)
IterationRun(s, c, r, disp) ==
    Do(LAMBDA w : StepRun(w, disp), CommandRun(Started(s), c, r))

\* the states in which main() can be when the steering thread ends the
\* process: inside its loop, between two statements
KillPoints(w) == {x \in w.through : x.pc = "loop"}

\* main() has come to a stop in one of the states of K, the steering thread
\* having ended the process in one of the states of E
Aborted(K, E) ==
    {[main |-> [k EXCEPT !.pc = "aborted"], client |-> e] : k \in K, e \in E}

\* the ends of the iteration that has led to a with the reads r, the
\* steering thread being in state t at the last of them: the iteration runs
\* to its end, or the thread ends the process while main() is inside it
Ends(c, t, r, a, disp, server) ==
    {[main |-> AfterCommand(a, disp), client |-> t]} \cup
    Do(LAMBDA E : IF E = {} THEN {}
                  ELSE Aborted(KillPoints(IterationRun(Cur, c, r, disp)), E),
       ThreadEnds(t, server))

\* steering_obj.get() returns g (line 1157): what the model records of it
Take(g) ==
    /\ cmd' = g.cmd
    /\ got' = IF g.cmd # "None" THEN Append(got, g.cmd) ELSE got
    /\ ctl' = IF g.cmd # "None"
              THEN [cmd |-> g.cmd, at_year_start |-> PausedAtYearStart,
                    year |-> dd_current.year,
                    arg |-> IF g.cmd = "GoTo" THEN goto_year ELSE 0]
              ELSE ctl
    /\ mode' = IF g.cmd \in {"Play", "StepForward"}
                  \/ (g.cmd = "GoTo" /\ GoToIsForward(Cur, goto_year))
               THEN "forward"
               ELSE IF g.cmd = "Pause" /\ mode # "init" THEN "paused"
               ELSE mode

\* one iteration of the loop (lines 1155-1490) in a session with server;
\* passes tells whether it is one that reaches the parallel region
IterationThat(passes, server) ==
    /\ pc = "loop"
    /\ \E g \in {get(command_queue)} :
           /\ Take(g)
           /\ \E q \in ReadStates(Cur, g.cmd, Taken(g), server) :
              \E r \in {Reads(q[1], q[2], q[3])} :
              \E a \in {Do(LAMBDA s : ApplyCommand(s, g.cmd, r), Cur)} :
                /\ ReachesPass(a) \in passes
                /\ \E disp \in DispChoices(a) :
                   \E n \in Ends(g.cmd, q[3], r, a, disp, server) :
                      /\ ClientBecomes(n.client)
                      /\ Becomes(n.main)
                      /\ batches' = IF g.cmd # "None" THEN n.main.closed
                                    ELSE batches \o n.main.closed
    /\ workers' = workers
    /\ UNCHANGED <<opt, socket_open>>

Iterate(server) == pc = "loop" /\ IterationThat(BOOLEAN, server)

\* lines 1571-1577: the steering thread is joined, main() returns
Join ==
    /\ pc = "done"
    /\ steering => client_pc = "exited"
    /\ pc' = "returned"
    /\ socket_open' = FALSE
    /\ UNCHANGED <<opt, steering_vars, client_pc, received_vec, nframes, cmd,
                   clock_vars, run_vars, checkpoint_vars, effect_vars, got,
                   history_vars, stored, payloads>>

(***************************************************************************)
(* main(): an iteration with a year-closing batch, in the steps in which   *)
(* it runs: the loop head up to the parallel region (lines 1156-1284), the *)
(* workers of the parallel region (lines 1285-1336), and the rest of the   *)
(* iteration after the region (lines 1337-1489).                           *)
(***************************************************************************)
\* the states the next iteration can be in when it has applied its
\* command: one for every way its reads of the payload fields can fall
\* between the steps of the steering thread
Applied(server) ==
    {ApplyCommand(Cur, get(command_queue).cmd, Reads(q[1], q[2], q[3])) :
        q \in ReadStates(Cur, get(command_queue).cmd, Taken(get(command_queue)),
                         server)}

\* an iteration that does not reach the parallel region
IterateNoPass(server) == pc = "loop" /\ IterationThat({FALSE}, server)

\* lines 1156-1284: the command is taken and applied, the step is
\* recorded, the workers of the parallel region are started; or the
\* steering thread ends the process before the region is reached
PassBegin(server) ==
    /\ pc = "loop"
    /\ \E g \in {get(command_queue)} :
           /\ Take(g)
           /\ batches' = IF g.cmd # "None" THEN <<>> ELSE batches
           /\ \E q \in ReadStates(Cur, g.cmd, Taken(g), server) :
              \E r \in {Reads(q[1], q[2], q[3])} :
              \E a \in {Do(LAMBDA s : ApplyCommand(s, g.cmd, r), Cur)} :
                /\ ReachesPass(a)
                /\ \E n \in {[main |-> [RecordStep(a) EXCEPT !.pc = "pass"],
                              client |-> q[3],
                              workers |-> [run \in Runs |-> "running"]]}
                            \cup
                            Do(LAMBDA E :
                                 IF E = {} THEN {}
                                 ELSE {[main |-> x.main, client |-> x.client,
                                        workers |-> workers] :
                                          x \in Aborted(
                                                  KillPoints(RecordRun(CommandRun(
                                                      Started(Cur), g.cmd, r))),
                                                  E)},
                               ThreadEnds(q[3], server)) :
                      /\ ClientBecomes(n.client)
                      /\ Becomes(n.main)
                      /\ workers' = n.workers
    /\ UNCHANGED <<opt, socket_open>>

\* the results of the step of the worker of a run: it runs the unresolved
\* steps on the rasters of its realization; or the steering thread ends
\* the process while the workers still running are under way
WorkerEnds(run, server) ==
    {[main |-> [Cur EXCEPT !.inf_species_rasts[run] = r.inf,
                           !.sus_species_rasts[run] = r.sus,
                           !.inf_species_cohort_rasts[run] = r.cohort,
                           !.pc = IF r.ub THEN "ub" ELSE @],
      client |-> ClientState,
      workers |-> [workers EXCEPT ![run] = "finished"]] :
        r \in RunOutcomes(Cur, run)}
    \cup
    Do(LAMBDA E :
         IF E = {} THEN {}
         ELSE {[main |-> x.main, client |-> x.client, workers |-> workers] :
                  x \in Aborted(RegionStates(Cur, {other \in Runs :
                                                     workers[other] = "running"}),
                                E)},
       ThreadEnds(ClientState, server))

\* (variant: the workers write one raster shared by the realizations)
WorkerSharedRaster(run, server) ==
    /\ pc = "pass"
    /\ workers[run] = "running"
    /\ \E r \in RunOutcomes(Cur, run) :
           /\ inf_species_rasts' = [other \in Runs |-> r.inf]
           /\ sus_species_rasts' = [other \in Runs |-> r.sus]
           /\ inf_species_cohort_rasts' =
                  [inf_species_cohort_rasts EXCEPT ![run] = r.cohort]
           /\ pc' = IF r.ub THEN "ub" ELSE pc
    /\ workers' = [workers EXCEPT ![run] = "finished"]
    /\ UNCHANGED <<opt, steering_vars, client_vars, cmd, clock_vars,
                   dead_in_current_year, accumulated_dead, I_species_rast,
                   treatments, checkpoint_vars, effect_vars, got,
                   history_vars, stored, payloads>>

\* lines 1286-1335: the worker of a realization
Worker(run, server) ==
    /\ pc = "pass"
    /\ workers[run] = "running"
    /\ \E n \in WorkerEnds(run, server) :
           /\ inf_species_rasts' = n.main.inf_species_rasts
           /\ sus_species_rasts' = n.main.sus_species_rasts
           /\ inf_species_cohort_rasts' = n.main.inf_species_cohort_rasts
           /\ pc' = n.main.pc
           /\ ClientBecomes(n.client)
           /\ workers' = n.workers
    /\ UNCHANGED <<opt, socket_open, cmd, clock_vars,
                   dead_in_current_year, accumulated_dead, I_species_rast,
                   treatments, checkpoint_vars, effect_vars, got,
                   history_vars>>

WorkerStep(server) == \E run \in Runs : Worker(run, server)

\* (variant: the region is left without waiting for the workers)
NoBarrier == TRUE
\* the implicit barrier at the end of the parallel region
Barrier == \A run \in Runs : workers[run] = "finished"

\* lines 1337-1489: the buffers are cleared, the checkpoint is saved,
\* mortality, synchronisation, outputs, the clock advances; or the
\* steering thread ends the process between two of these statements
PassEnd(server) ==
    /\ pc = "pass"
    /\ Barrier
    /\ \E n \in {[main |-> Then(AdvanceClock,
                            Then(CloseOutputs,
                             Then(Mortality,
                              Then(SaveCheckpoint,
                                   [Cur EXCEPT !.pc = "loop",
                                               !.recorded = TRUE,
                                               !.unresolved_steps = <<>>,
                                               !.unresolved_dates = <<>>])))),
                  client |-> ClientState,
                  workers |-> [run \in Runs |-> "idle"]]}
                \cup
                Do(LAMBDA E :
                     IF E = {} THEN {}
                     ELSE {[main |-> x.main, client |-> x.client,
                            workers |-> workers] :
                              x \in Aborted(
                                      KillPoints(BatchRun(Started(
                                          [Cur EXCEPT !.pc = "loop",
                                                      !.recorded = TRUE]))),
                                      E)},
                   ThreadEnds(ClientState, server)) :
           /\ Becomes(n.main)
           /\ ClientBecomes(n.client)
           /\ batches' = batches \o n.main.closed
           /\ workers' = n.workers
    /\ UNCHANGED <<opt, socket_open, cmd, got, ctl, mode>>

(***************************************************************************)
(* Initial states: the state of main() when the loop is entered.           *)
(***************************************************************************)
InitWith(options) ==
    /\ opt \in options
    /\ command_queue = <<>>
    /\ load_data = <<>>
    /\ basename = <<>>
    /\ goto_year = 0
    /\ treatment_year = 0
    /\ client_pc = IF steering THEN "receive" ELSE "none"
    /\ received_vec = <<>>
    /\ socket_open = steering
    /\ nframes = 0
    /\ pc = "loop"
    /\ cmd = "None"
    /\ dd_current = dd_start
    /\ dd_current_end = IF steering THEN dd_start ELSE dd_end
    /\ dd_current_last_day = get_last_day_of_month(dd_start)
    /\ current_step = 0
    /\ unresolved_steps = <<>>
    /\ unresolved_dates = <<>>
    /\ after_loading_checkpoint = FALSE
    /\ sync = FALSE
    /\ workers = [run \in Runs |-> "idle"]
    /\ sus_species_rasts = [run \in Runs |-> S_species_rast]
    /\ inf_species_rasts = [run \in Runs |-> opt.infected]
    /\ inf_species_cohort_rasts = [run \in Runs |-> [age \in Ages |-> 0]]
    /\ dead_in_current_year = [run \in Runs |-> 0]
    /\ accumulated_dead = 0
    /\ I_species_rast = opt.infected
    /\ treatments = opt.treatments
    /\ last_checkpoint = 0
    /\ sus_checkpoint = [i \in Slots |-> [run \in Runs |-> S_species_rast]]
    /\ inf_checkpoint = [i \in Slots |-> [run \in Runs |->
                            IF i = 0 THEN opt.infected ELSE S_species_rast]]
    /\ step_checkpoint = [i \in Slots |-> 0]
    /\ date_checkpoint = [i \in Slots |-> dd_start]
    /\ last_name = <<>>
    /\ sent = <<>>
    /\ written = <<>>
    /\ stored = <<>>
    /\ got = <<>>
    /\ payloads = <<>>
    /\ recorded = FALSE
    /\ batches = <<>>
    /\ ctl = [cmd |-> "None", at_year_start |-> FALSE, year |-> 0, arg |-> 0]
    /\ mode = "init"

\* the options of a run; the fields are the answers of the module's options
Options(steer, years, runs, hosts, infected) ==
    [steering |-> steer,
     start_time |-> 2000,
     end_time |-> 2000 + years - 1,
     num_runs |-> runs,
     host |-> hosts,
     infected |-> infected,
     establish |-> 1,
     mortality |-> FALSE,
     first_year_to_die |-> 1,
     infected_to_dead_rate |-> <<1, 2>>,
     use_lethal_temperature |-> FALSE,
     actual_temperatures |-> <<>>,
     lethal_temperature_month |-> 0,
     treatments_given |-> FALSE,
     treatments |-> <<>>,
     treatment_month |-> 0,
     season |-> <<1, 12>>,
     output_series |-> TRUE,
     series_as_single_run |-> FALSE,
     stddev_series |-> FALSE,
     probability_series |-> FALSE,
     dead_series |-> FALSE]

(***************************************************************************)
(* Frames the steering server can send.                                    *)
(***************************************************************************)
F_play == W_cmd \o Colon \o W_play
F_pause == W_cmd \o Colon \o W_pause
F_stepf == W_cmd \o Colon \o W_stepf
F_stepb == W_cmd \o Colon \o W_stepb
F_stop == W_cmd \o Colon \o W_stop
F_goto(digits) == W_goto \o Colon \o digits
F_load(digits, name) == W_load \o Colon \o digits \o Colon \o name
F_name(name) == W_name \o Colon \o name

Frames ==
    {F_play, F_pause, F_stepf, F_stepb, F_stop, W_sync,
     F_goto(<<"0">>), F_goto(<<"1">>), F_goto(<<"2">>),
     F_load(<<"2", "0", "0", "0">>, <<"a">>), F_name(<<"n">>),
     F_pause \o Semi \o F_pause, F_stop \o Semi \o F_play}

\* with hosts = infected no susceptible host exists at the start
HostRasters == {<<2, 1>>, <<1, 1>>}

SteeringOptions ==
    {Options(TRUE, years, 1, h[1], h[2]) : years \in 1..MaxYears, h \in HostRasters}

\* steering sessions with lethal temperature in which a temperature raster
\* was supplied for the first year only, or for none when a single year is
\* simulated (nothing at startup compares the number of rasters with the
\* number of years)
LethalSteeringOptions ==
    {[Options(TRUE, years, 1, h[1], h[2]) EXCEPT
         !.use_lethal_temperature = TRUE,
         !.actual_temperatures = [i \in 1..Min(years - 1, 1) |-> TRUE],
         !.lethal_temperature_month = 1] :
       years \in 1..MaxYears, h \in HostRasters}

\* batch runs, with and without lethal temperature (a temperature raster for
\* every year, or for all years but the last) and mortality
BatchOptions ==
    {[Options(FALSE, years, runs, h[1], h[2]) EXCEPT
         !.use_lethal_temperature = (missing >= 0),
         !.actual_temperatures = [i \in 1..(IF missing >= 0 THEN years - missing ELSE 0)
                                    |-> TRUE],
         !.lethal_temperature_month = 1,
         !.mortality = mort] :
       years \in 1..MaxYears, runs \in 1..2, h \in HostRasters,
       missing \in {-1, 0, 1}, mort \in BOOLEAN}

Init == InitWith(SteeringOptions \cup BatchOptions)

SteeringServer == Server(Frames)
Next ==
    \/ \E frame \in SteeringServer.frames : Receive(frame)
    \/ HandleMessage
    \/ RecvFail
    \/ Iterate(SteeringServer)
    \/ Join

Spec == Init /\ [][Next]_vars

\* the steering sessions of Spec, with and without lethal temperature
ForwardInit == InitWith(SteeringOptions \cup LethalSteeringOptions)
ForwardSpec == ForwardInit /\ [][Next]_vars

\* batch mode: the main thread is the only thread, and it keeps running
BatchInit == InitWith(BatchOptions)
\* no server is connected in batch mode
NoServer == Server({})
BatchNext == Iterate(NoServer) \/ Join
BatchSpec ==
    BatchInit /\ [][BatchNext]_vars /\ WF_vars(Iterate(NoServer)) /\ WF_vars(Join)

\* a steering session in which both threads keep running
FairFrames == {F_play, F_pause, F_stepf, F_stop, F_stop \o Semi \o F_play}
FairInit == InitWith(SteeringOptions \cup LethalSteeringOptions)
FairServer == Server(FairFrames)
FairNext ==
    \/ \E frame \in FairServer.frames : Receive(frame)
    \/ HandleMessage
    \/ RecvFail
    \/ Iterate(FairServer)
    \/ Join
FairSpec ==
    FairInit /\ [][FairNext]_vars
    /\ WF_vars(Iterate(FairServer)) /\ WF_vars(Join) /\ WF_vars(HandleMessage)

\* a steering session that jumps between checkpoints: every goto message is
\* sent twice in a frame, and year indices out of the range are sent
GoToFrames ==
    {F_play, F_stepf,
     F_goto(<<"0">>) \o Semi \o F_goto(<<"0">>),
     F_goto(<<"1">>) \o Semi \o F_goto(<<"1">>),
     F_goto(<<"2">>) \o Semi \o F_goto(<<"2">>),
     F_goto(<<"1">>) \o Semi \o F_goto(<<"2">>),
     F_goto(<<"-", "1">>), F_goto(<<"4">>)}
GoToInit == InitWith(SteeringOptions)
GoToServer == Server(GoToFrames)
GoToNext ==
    \/ \E frame \in GoToServer.frames : Receive(frame)
    \/ HandleMessage
    \/ RecvFail
    \/ Iterate(GoToServer)
    \/ Join
GoToSpec == GoToInit /\ [][GoToNext]_vars

\* a steering session with year indices below and above the range of the
\* checkpoints, and one inside it
RangeFrames ==
    {F_play, F_stepf, F_goto(<<"1">>), F_goto(<<"-", "1">>), F_goto(<<"4">>)}
RangeServer == Server(RangeFrames)
RangeNext ==
    \/ \E frame \in RangeServer.frames : Receive(frame)
    \/ HandleMessage
    \/ RecvFail
    \/ Iterate(RangeServer)
    \/ Join
RangeSpec == GoToInit /\ [][RangeNext]_vars

\* a steering session over two realizations, with and without mortality
SyncFrames == {F_play, F_stepf, F_stepb, W_sync, W_sync \o Semi \o F_stepf}
SyncOptions ==
    {[Options(TRUE, years, 2, 2, 1) EXCEPT !.mortality = mort] :
       years \in 1..MaxYears, mort \in BOOLEAN}
SyncInit == InitWith(SyncOptions)
SyncServer == Server(SyncFrames)
SyncNext ==
    \/ \E frame \in SyncServer.frames : Receive(frame)
    \/ HandleMessage
    \/ RecvFail
    \/ Iterate(SyncServer)
    \/ Join
SyncSpec == SyncInit /\ [][SyncNext]_vars

\* batch runs with mortality: ten hosts are infected by an establishing
\* disperser, and the hosts die from the first or from the second year on,
\* or never (a time lag of 0); the series of dead hosts is an output of the
\* series of a single run (flag -l, line 832)
MortalityOptions ==
    {[Options(FALSE, years, runs, 21, 1) EXCEPT
         !.establish = 10,
         !.mortality = TRUE,
         !.first_year_to_die = first,
         !.series_as_single_run = single,
         !.stddev_series = stddev,
         !.dead_series = single /\ dead] :
       years \in 1..MaxYears, runs \in 1..2, first \in 0..MaxYears,
       single \in BOOLEAN, stddev \in BOOLEAN, dead \in BOOLEAN}
\* a first year to die beyond the simulated years ends the program at startup
MortalityInit ==
    InitWith({o \in MortalityOptions :
                 o.first_year_to_die <= 1 + o.end_time - o.start_time})
MortalityNext == Iterate(NoServer) \/ Join
MortalitySpec == MortalityInit /\ [][MortalityNext]_vars

\* a steering session in which treatment rasters are loaded for the first
\* and for the second year
LoadFrames ==
    {F_play, F_stepf, F_stepb,
     F_load(<<"2", "0", "0", "0">>, <<"a">>),
     F_load(<<"2", "0", "0", "0">>, <<"b">>),
     F_load(<<"2", "0", "0", "1">>, <<"a">>),
     F_load(<<"2", "0", "0", "1">>, <<"a">>) \o Semi
         \o F_load(<<"2", "0", "0", "0">>, <<"b">>),
     F_load(<<"2", "0", "0", "0">>, <<"b">>) \o Semi
         \o F_load(<<"2", "0", "0", "1">>, <<"a">>),
     F_load(<<"2", "0", "0", "0">>, <<"c">>)}
LoadInit == InitWith(SteeringOptions)
LoadServer == Server(LoadFrames)
LoadNext ==
    \/ \E frame \in LoadServer.frames : Receive(frame)
    \/ HandleMessage
    \/ RecvFail
    \/ Iterate(LoadServer)
    \/ Join
LoadSpec == LoadInit /\ [][LoadNext]_vars

\* a steering session in which the server sends messages of no recognized
\* form: an unknown word, an unknown cmd token, load and goto messages with
\* missing or non-numeric fields (one of them behind a load message that is
\* well formed), with white space before the year or a year that fits no
\* int, a cmd without token
MalformedFrames ==
    {F_play, F_stepf,
     <<"f", "o", "o">>,
     W_cmd \o Colon \o <<"g", "o">>,
     F_goto(<<"x">>),
     F_goto(<<" ", "1">>),
     F_goto(<<VerticalTab, "1">>),
     F_goto(<<"2", "1", "4", "7", "4", "8", "3", "6", "4", "8">>),
     F_load(<<"x">>, <<"a">>),
     F_load(<<"2", "0", "0", "0">>, <<"a">>) \o Semi \o F_load(<<"x">>, <<"a">>),
     F_load(<<"4", "2", "9", "4", "9", "6", "7", "2", "9", "5">>, <<"a">>),
     W_load \o Colon \o <<"2", "0", "0", "0">>,
     W_load, W_goto, W_cmd,
     <<"f", "o", "o">> \o Semi \o F_play}
MalformedInit == InitWith(SteeringOptions)
MalformedServer == Server(MalformedFrames)
MalformedNext ==
    \/ \E frame \in MalformedServer.frames : Receive(frame)
    \/ HandleMessage
    \/ RecvFail
    \/ Iterate(MalformedServer)
    \/ Join
MalformedSpec == MalformedInit /\ [][MalformedNext]_vars

\* a steering session over two realizations in which the iterations with a
\* year-closing batch run in these steps; the goto message without a year
\* ends the steering thread, and the process with it
WorkerFrames == {F_play, F_stepf, F_stepb, W_sync, W_goto}
WorkerInit == InitWith(SyncOptions)
WorkerServer == Server(WorkerFrames)
WorkerNext ==
    \/ \E frame \in WorkerServer.frames : Receive(frame)
    \/ HandleMessage
    \/ RecvFail
    \/ IterateNoPass(WorkerServer)
    \/ PassBegin(WorkerServer)
    \/ WorkerStep(WorkerServer)
    \/ PassEnd(WorkerServer)
    \/ Join
WorkerSpec == WorkerInit /\ [][WorkerNext]_vars

\* a steering session with mortality and the probability series, in which
\* a year is simulated, taken back and simulated again
RewindFrames == {F_play, F_stepf, F_stepb, F_stepb \o Semi \o F_stepf}
RewindOptions ==
    {[Options(TRUE, years, runs, 21, 1) EXCEPT
         !.establish = 10,
         !.mortality = TRUE,
         !.probability_series = TRUE] :
       years \in 1..MaxYears, runs \in 1..2}
RewindInit == InitWith(RewindOptions)
RewindServer == Server(RewindFrames)
RewindNext ==
    \/ \E frame \in RewindServer.frames : Receive(frame)
    \/ HandleMessage
    \/ RecvFail
    \/ Iterate(RewindServer)
    \/ Join
RewindSpec == RewindInit /\ [][RewindNext]_vars

\* a steering session in which the server keeps sending pause: six of them
\* in a frame, alone or after a play
PastEndFrames ==
    {F_play, F_stepf, F_stepb,
     F_pause \o Semi \o F_pause \o Semi \o F_pause \o Semi \o F_pause \o Semi
         \o F_pause \o Semi \o F_pause,
     F_play \o Semi \o F_pause \o Semi \o F_pause \o Semi \o F_pause \o Semi
         \o F_pause \o Semi \o F_pause \o Semi \o F_pause}
PastEndServer == Server(PastEndFrames)
PastEndNext ==
    \/ \E frame \in PastEndServer.frames : Receive(frame)
    \/ HandleMessage
    \/ RecvFail
    \/ Iterate(PastEndServer)
    \/ Join
PastEndInit == InitWith(SteeringOptions)
PastEndSpec == PastEndInit /\ [][PastEndNext]_vars

\* a steering session with lethal temperature and treatments in December
\* and a season of the whole year or of April to September, in which the
\* run is taken back to a checkpoint and simulated again
ReplayFrames ==
    {F_play, F_stepf,
     F_stepb \o Semi \o F_stepf,
     F_goto(<<"0">>) \o Semi \o F_stepf,
     F_goto(<<"0">>) \o Semi \o F_stepb}
ReplayOptions ==
    {[Options(TRUE, years, 1, 2, 1) EXCEPT
         !.use_lethal_temperature = TRUE,
         !.actual_temperatures = [i \in 1..years |-> TRUE],
         !.lethal_temperature_month = 12,
         !.treatment_month = 12,
         !.season = season] :
       years \in 1..MaxYears, season \in {<<1, 12>>, <<4, 9>>}}
ReplayInit == InitWith(ReplayOptions)
ReplayServer == Server(ReplayFrames)
ReplayNext ==
    \/ \E frame \in ReplayServer.frames : Receive(frame)
    \/ HandleMessage
    \/ RecvFail
    \/ Iterate(ReplayServer)
    \/ Join
ReplaySpec == ReplayInit /\ [][ReplayNext]_vars

(***************************************************************************)
(* Properties.                                                             *)
(***************************************************************************)
Range(seq) == {seq[i] : i \in 1..Len(seq)}

\* a step of the main loop (any other action changes one of these)
IterateStep ==
    /\ pc = "loop"
    /\ got' # got \/ UNCHANGED <<client_pc, received_vec, nframes, stored>>

\* the scheduler is idle: the step branch is not taken
Idle == pc = "loop" /\ ~StepGuard(Cur)

\* the years from the start year on, n of them
YearsFrom(n) == [i \in 1..n |-> opt.start_time + i - 1]

\* nothing has been simulated: clock, buffers, realizations and checkpoints
\* are as they were when the loop was entered
Pristine ==
    /\ dd_current = dd_start
    /\ current_step = 0
    /\ unresolved_steps = <<>>
    /\ unresolved_dates = <<>>
    /\ ~recorded
    /\ batches = <<>>
    /\ written = <<>>
    /\ sent = <<>>
    /\ sus_species_rasts = [run \in Runs |-> S_species_rast]
    /\ inf_species_rasts = [run \in Runs |-> opt.infected]
    /\ inf_species_cohort_rasts = [run \in Runs |-> [age \in Ages |-> 0]]
    /\ last_checkpoint = 0
    /\ sus_checkpoint = [i \in Slots |-> [run \in Runs |-> S_species_rast]]
    /\ inf_checkpoint = [i \in Slots |-> [run \in Runs |->
                            IF i = 0 THEN opt.infected ELSE S_species_rast]]
    /\ step_checkpoint = [i \in Slots |-> 0]
    /\ date_checkpoint = [i \in Slots |-> dd_start]

(***************************************************************************)
(* C1: get returns the stored commands in the order they were stored, each *)
(* exactly once (the commands returned so far followed by the queue are    *)
(* the commands stored so far), and it returns None, leaving the queue     *)
(* alone, exactly when the queue is empty.  (At the end of the iteration   *)
(* the queue is what get left, followed by the commands the steering       *)
(* thread has stored while the iteration ran.)                             *)
(***************************************************************************)
C1_Fifo ==
    /\ [](got \o command_queue = stored)
    /\ [][IterateStep =>
            IF command_queue = <<>>
            THEN cmd' = "None" /\ got' = got /\ command_queue' = <<>>
            ELSE /\ cmd' = Head(command_queue)
                 /\ cmd' # "None"
                 /\ got' = Append(got, Head(command_queue))
                 /\ Len(stored') >= Len(stored)
                 /\ SubSeq(stored', 1, Len(stored)) = stored
                 /\ command_queue' =
                        Tail(command_queue)
                        \o SubSeq(stored', Len(stored) + 1, Len(stored'))]_vars

C1_Witness ==
    /\ Len(got) >= 2
    /\ got[1] # got[2]
    /\ command_queue # <<>>

(***************************************************************************)
(* C2: at most one Stop is ever stored and it is the last command stored;  *)
(* the steering thread has left its loop exactly when it has stored Stop   *)
(* (after a failed receive or a cmd:stop message); once the scheduler has  *)
(* popped Stop it has left its loop, so Stop is the last command it        *)
(* processes.                                                              *)
(***************************************************************************)
C2_StopIsLast ==
    /\ \A i \in 1..Len(stored) : stored[i] = "Stop" => i = Len(stored)
    /\ steering =>
         ((client_pc = "exited") <=>
             (stored # <<>> /\ stored[Len(stored)] = "Stop"))
    /\ \A i \in 1..Len(got) :
         got[i] = "Stop" => i = Len(got) /\ pc \in {"done", "returned"}

\* a receive failure (the thread closed the socket) after other commands,
\* and the scheduler has popped the Stop
C2_Witness ==
    /\ ~socket_open
    /\ pc = "done"
    /\ Len(got) >= 2
    /\ got[Len(got)] = "Stop"

(***************************************************************************)
(* C3 as stated: once Stop has been stored the scheduler eventually pops   *)
(* it.                                                                     *)
(***************************************************************************)
C3_StopIsPopped == ("Stop" \in Range(stored)) ~> ("Stop" \in Range(got))

(***************************************************************************)
(* C3, amended: once Stop has been stored the run eventually ends, in one  *)
(* of three ways.  The scheduler has popped the Stop and main() has        *)
(* returned; or no susceptible host exists, the loop was left by the early *)
(* termination without popping the Stop, and main() has returned; or       *)
(* lethal temperature is used, the temperature raster of the year to close *)
(* is missing, and the process has ended with the fatal error without      *)
(* popping the Stop and without joining the thread.  The iteration that    *)
(* pops Stop leaves the loop; the loop is left without a fatal error only  *)
(* by Stop or because no susceptible host exists; main() returns only      *)
(* after the steering thread has left its loop and closed the socket.      *)
(***************************************************************************)
C3_StopEndsRun ==
    /\ ("Stop" \in Range(stored)) ~>
          \/ pc = "returned" /\ "Stop" \in Range(got)
          \/ pc = "returned" /\ "Stop" \notin Range(got)
                /\ all_infected(S_species_rast)
          \/ pc = "fatal" /\ "Stop" \notin Range(got)
    /\ [](("Stop" \in Range(got)) => pc \in {"done", "returned"})
    /\ [](pc \in {"done", "returned"} =>
            ("Stop" \in Range(got)) \/ all_infected(S_species_rast))
    /\ [](pc = "fatal" =>
            /\ opt.use_lethal_temperature
            /\ is_last_month_of_year(dd_current)
            /\ SimulationYear(Cur) >= Len(opt.actual_temperatures)
            /\ ~all_infected(S_species_rast))
    /\ [](pc = "returned" => client_pc = "exited" /\ ~socket_open)

C3_Witness ==
    /\ pc = "returned"
    /\ Len(got) >= 2
    /\ got[Len(got)] = "Stop"
    /\ last_checkpoint >= 1

(***************************************************************************)
(* C4: with a steering session, as long as no Play, StepForward or forward *)
(* GoTo has been processed, the target date is the start date and nothing  *)
(* has been simulated; without steering the target date is the end date.   *)
(***************************************************************************)
C4_StartsPaused ==
    /\ (steering /\ mode = "init") => (Pristine /\ dd_current_end = dd_start)
    /\ ~steering => dd_current_end = dd_end

\* a Pause and a GoTo(0) were processed in the initial state
C4_Witness ==
    /\ steering
    /\ mode = "init"
    /\ cmd = "GoTo"
    /\ "Pause" \in Range(got)

(***************************************************************************)
(* C5 as stated: in batch mode, when the loop has been left, one batch     *)
(* has run for each simulated year, in order, and the clock has passed the *)
(* end date.                                                               *)
(***************************************************************************)
C5_AllYearsClosed ==
    (~steering /\ pc # "loop") =>
        (batches = YearsFrom(num_years) /\ DateGT(dd_current, dd_end))

(***************************************************************************)
(* C5, amended: in batch mode the loop always terminates.  While it runs   *)
(* the clock is not beyond the end date and exactly the years before the   *)
(* current one have been closed, once each and in order.  It ends early    *)
(* without any batch if no susceptible host exists, and with a fatal error *)
(* in the batch of the first year without a temperature raster; otherwise  *)
(* it is left when the clock first exceeds the end date, all years closed. *)
(***************************************************************************)
C5_BatchRun ==
    /\ <>(pc # "loop")
    /\ [](pc = "loop" =>
            /\ DateLE(dd_current, dd_end)
            /\ batches = YearsFrom(dd_current.year - dd_start.year))
    /\ [](pc \in {"done", "returned"} =>
            IF all_infected(S_species_rast)
            THEN batches = <<>> /\ dd_current = dd_start
            ELSE /\ batches = YearsFrom(num_years)
                 /\ last_checkpoint = num_years
                 /\ dd_current = Date(opt.end_time + 1, 1, 1))
    /\ [](pc = "fatal" =>
            /\ opt.use_lethal_temperature
            /\ Len(opt.actual_temperatures) < num_years
            /\ batches = YearsFrom(Len(opt.actual_temperatures)))
    /\ [](pc \in {"loop", "done", "returned", "fatal"})

C5_Witness ==
    /\ ~steering
    /\ pc = "returned"
    /\ num_years >= 2
    /\ batches = YearsFrom(num_years)

(***************************************************************************)
(* C6: with a steering session, while the clock is beyond the end date no  *)
(* iteration records a sub-step, advances the clock, runs a batch or sends *)
(* another info:last notification, whatever command other than a rewind    *)
(* or Stop it processes.                                                   *)
(***************************************************************************)
C6_IdleAfterEnd ==
    [][(/\ IterateStep
        /\ steering
        /\ DateGT(dd_current, dd_end)
        /\ cmd' \notin {"StepBack", "GoTo", "Stop"})
       => (/\ ~recorded'
           /\ dd_current' = dd_current
           /\ current_step' = current_step
           /\ last_checkpoint' = last_checkpoint
           /\ \A i \in 1..Len(sent') : sent'[i].kind # "last")]_vars

(***************************************************************************)
(* C7: the target date is never before the start date nor after the end    *)
(* date.                                                                   *)
(***************************************************************************)
C7_TargetInRange ==
    DateLE(dd_start, dd_current_end) /\ DateLE(dd_current_end, dd_end)

(***************************************************************************)
(* C8: a Pause processed in the iteration that follows the processing of   *)
(* a Pause leaves the target date as the first Pause set it.               *)
(***************************************************************************)
C8_PauseIdempotent ==
    [][(IterateStep /\ cmd = "Pause" /\ cmd' = "Pause")
       => dd_current_end' = dd_current_end]_vars

(***************************************************************************)
(* C9: at the end of the iteration that processes Pause the target date    *)
(* equals the current date, and from then on, until a Play, StepForward or *)
(* forward GoTo is processed, no iteration (rewinds aside) records a       *)
(* sub-step, advances the clock or runs a batch.                           *)
(***************************************************************************)
C9_PausedAfterPause ==
    [][IterateStep =>
         /\ (cmd' = "Pause" => dd_current_end' = dd_current')
         /\ (mode = "paused" /\ mode' = "paused"
                /\ cmd' \notin {"StepBack", "GoTo", "Stop"})
            => (/\ ~recorded'
                /\ dd_current' = dd_current
                /\ last_checkpoint' = last_checkpoint)]_vars

(***************************************************************************)
(* C10 as stated: StepForward leaves a target date that is not after the   *)
(* end date.  After a StepForward processed while the scheduler was idle   *)
(* at the first sub-step of a year, and as long as no other command is     *)
(* processed, the scheduler stays in its loop, the target date is the end  *)
(* of that year, no batch but that year's runs, and the scheduler is idle  *)
(* again exactly when that batch has run.                                  *)
(***************************************************************************)
C10_StepForwardAlwaysOneYear ==
    (ctl.cmd = "StepForward" /\ pc \in {"loop", "done", "returned"}) =>
        /\ DateLE(dd_current_end, dd_end)
        /\ ctl.at_year_start =>
             /\ pc = "loop"
             /\ dd_current_end = Date(ctl.year, 12, 31)
             /\ batches \in {<<>>, <<ctl.year>>}
             /\ Idle <=> (batches = <<ctl.year>>)

(***************************************************************************)
(* C10, amended: as stated, unless the loop is left before the batch.  If  *)
(* no susceptible host exists the loop is left at the first sub-step and   *)
(* no batch runs; if lethal temperature is used and the temperature raster *)
(* of the year is missing, the process ends with the fatal error in the    *)
(* December sub-step of that year, before the batch.  After a StepForward  *)
(* the scheduler is in its loop or has left it in one of these two ways.   *)
(***************************************************************************)
C10_StepForwardOneYear ==
    ctl.cmd = "StepForward" =>
        /\ pc \in {"loop", "done", "returned", "fatal"}
        /\ DateLE(dd_current_end, dd_end)
        /\ pc \in {"done", "returned"} =>
              (all_infected(S_species_rast) /\ batches = <<>>)
        /\ pc = "fatal" =>
              /\ opt.use_lethal_temperature
              /\ SimulationYear(Cur) >= Len(opt.actual_temperatures)
              /\ is_last_month_of_year(dd_current)
              /\ ctl.at_year_start =>
                    (dd_current.year = ctl.year /\ batches = <<>>)
        /\ (ctl.at_year_start /\ pc = "loop") =>
             /\ dd_current_end = Date(ctl.year, 12, 31)
             /\ batches \in {<<>>, <<ctl.year>>}
             /\ Idle <=> (batches = <<ctl.year>>)

\* the year after the start year was closed by a StepForward
C10_Witness ==
    /\ pc = "loop"
    /\ ctl.cmd = "StepForward"
    /\ ctl.at_year_start
    /\ ctl.year > opt.start_time
    /\ batches = <<ctl.year>>
    /\ Idle

(***************************************************************************)
(* C11: at the end of the iteration that processes a StepBack which        *)
(* restores a slot, every realization's susceptible and infected raster,   *)
(* the step counter and the current date equal the values stored in that   *)
(* slot.                                                                   *)
(***************************************************************************)
C11_StepBackRoundTrip ==
    [][(IterateStep /\ cmd' = "StepBack" /\ last_checkpoint >= 1)
       => (/\ sus_species_rasts' = sus_checkpoint[last_checkpoint - 1]
           /\ inf_species_rasts' = inf_checkpoint[last_checkpoint - 1]
           /\ current_step' = step_checkpoint[last_checkpoint - 1]
           /\ dd_current' = date_checkpoint[last_checkpoint - 1])]_vars

(***************************************************************************)
(* C12: in every state of the loop the StepBack branch changes nothing     *)
(* when the last-checkpoint index is 0; otherwise it lowers the index by   *)
(* one, copies that slot's rasters and step counter, sets current and      *)
(* target date to the slot's date and empties the unresolved steps.  The   *)
(* iteration that processes a restoring StepBack ends with the lowered     *)
(* index, the slot's rasters and the slot's date as target date.           *)
(***************************************************************************)
C12_StepBackEffect ==
    /\ [](pc = "loop" =>
            IF last_checkpoint = 0
            THEN CmdStepBack(Cur) = Cur
            ELSE /\ last_checkpoint - 1 \in Slots
                 /\ CmdStepBack(Cur).last_checkpoint = last_checkpoint - 1
                 /\ CmdStepBack(Cur).sus_species_rasts
                        = sus_checkpoint[last_checkpoint - 1]
                 /\ CmdStepBack(Cur).inf_species_rasts
                        = inf_checkpoint[last_checkpoint - 1]
                 /\ CmdStepBack(Cur).current_step
                        = step_checkpoint[last_checkpoint - 1]
                 /\ CmdStepBack(Cur).dd_current
                        = date_checkpoint[last_checkpoint - 1]
                 /\ CmdStepBack(Cur).dd_current_end
                        = date_checkpoint[last_checkpoint - 1]
                 /\ CmdStepBack(Cur).unresolved_steps = <<>>)
    /\ [][(IterateStep /\ cmd' = "StepBack" /\ last_checkpoint >= 1)
          => (/\ last_checkpoint' = last_checkpoint - 1
              /\ sus_species_rasts' = sus_checkpoint[last_checkpoint - 1]
              /\ inf_species_rasts' = inf_checkpoint[last_checkpoint - 1]
              /\ dd_current_end' = date_checkpoint[last_checkpoint - 1]
              /\ Len(unresolved_steps') <= 1)]_vars

\* a StepBack has restored slot 1 after two years were closed
C12_Witness ==
    /\ cmd = "StepBack"
    /\ last_checkpoint = 1
    /\ dd_current_end = date_checkpoint[1]
    /\ inf_species_rasts = inf_checkpoint[1]
    /\ batches = <<>>

(***************************************************************************)
(* C13: a GoTo(Y) processed in the iteration that follows the processing   *)
(* of a GoTo(Y) with the same Y leaves clock, target date, step counter,   *)
(* last-checkpoint index, every realization's rasters and the unresolved   *)
(* step and date buffers as the first GoTo(Y) left them.  (Stated for the  *)
(* first GoTo(Y) having left the scheduler idle: after a forward GoTo the  *)
(* simulation runs, and the state changes by that.)                        *)
(***************************************************************************)
C13_GoToIdempotent ==
    [][(/\ IterateStep
        /\ cmd = "GoTo" /\ cmd' = "GoTo"
        /\ ctl.arg = goto_year
        /\ goto_year' = goto_year
        /\ Idle)
       => (/\ dd_current' = dd_current
           /\ dd_current_end' = dd_current_end
           /\ current_step' = current_step
           /\ last_checkpoint' = last_checkpoint
           /\ sus_species_rasts' = sus_species_rasts
           /\ inf_species_rasts' = inf_species_rasts
           /\ unresolved_steps' = unresolved_steps
           /\ unresolved_dates' = unresolved_dates)]_vars

\* the fields of the loop state n that an iteration leaves in the variables
LeftBy(n) ==
    /\ pc' = n.pc
    /\ dd_current' = n.dd_current
    /\ dd_current_end' = n.dd_current_end
    /\ current_step' = n.current_step
    /\ unresolved_steps' = n.unresolved_steps
    /\ unresolved_dates' = n.unresolved_dates
    /\ after_loading_checkpoint' = n.after_loading_checkpoint
    /\ sus_species_rasts' = n.sus_species_rasts
    /\ inf_species_rasts' = n.inf_species_rasts
    /\ inf_species_cohort_rasts' = n.inf_species_cohort_rasts
    /\ last_checkpoint' = n.last_checkpoint
    /\ sus_checkpoint' = n.sus_checkpoint
    /\ inf_checkpoint' = n.inf_checkpoint
    /\ step_checkpoint' = n.step_checkpoint
    /\ date_checkpoint' = n.date_checkpoint

\* year indices around the range of the checkpoint slots
YearIndices == (-2)..(num_checkpoints + 2)

(***************************************************************************)
(* C14: in every state of the loop the GoTo branch changes nothing when    *)
(* the year index is negative or not smaller than the number of slots.     *)
(* The iteration that processes such a GoTo ends as an iteration without   *)
(* a command would have; with the scheduler idle, clock, target date, step *)
(* counter, last-checkpoint index, rasters and slots are unchanged.        *)
(***************************************************************************)
C14_GoToOutOfRange ==
    /\ [](pc = "loop" =>
            \A s \in {Cur} :
               \A g \in YearIndices \cup {goto_year} :
                  (g < 0 \/ g >= num_checkpoints) =>
                      \A g2 \in YearIndices : CmdGoTo(s, g, g2) = s)
    /\ [][(/\ IterateStep
           /\ cmd' = "GoTo"
           /\ (goto_year < 0 \/ goto_year >= num_checkpoints))
          => (/\ \E s \in {Cur} :
                    \E disp \in DispChoices(s) : LeftBy(AfterCommand(s, disp))
              /\ Idle => (/\ dd_current' = dd_current
                          /\ dd_current_end' = dd_current_end
                          /\ current_step' = current_step
                          /\ last_checkpoint' = last_checkpoint
                          /\ sus_species_rasts' = sus_species_rasts
                          /\ inf_species_rasts' = inf_species_rasts
                          /\ sus_checkpoint' = sus_checkpoint
                          /\ inf_checkpoint' = inf_checkpoint
                          /\ step_checkpoint' = step_checkpoint
                          /\ date_checkpoint' = date_checkpoint))]_vars

\* a negative year index was processed after a year had been closed
C14_Witness ==
    /\ cmd = "GoTo"
    /\ goto_year = -1
    /\ pc = "loop"
    /\ last_checkpoint >= 1
    /\ DateGT(dd_current, dd_current_end)

\* the number of years closed on the way to the current state: the clock
\* stands in the year that follows them
YearsClosedBefore == dd_current.year - dd_start.year

(***************************************************************************)
(* C15: in every state of the loop the GoTo branch with an in-range year   *)
(* index Y either (Y at most the last-checkpoint index) sets every         *)
(* realization's rasters, the step counter and the current date from slot  *)
(* Y and empties the unresolved steps, or changes nothing but the target   *)
(* date, which becomes 31 December of (start year + Y - 1).  A GoTo that   *)
(* restores slot Y is processed only when Y years or more have been closed *)
(* since the most recent rewind.                                           *)
(***************************************************************************)
C15_GoToEffect ==
    /\ [](pc = "loop" =>
            \A g \in Slots :
               IF g <= last_checkpoint
               THEN /\ CmdGoTo(Cur, g, g).sus_species_rasts = sus_checkpoint[g]
                    /\ CmdGoTo(Cur, g, g).inf_species_rasts = inf_checkpoint[g]
                    /\ CmdGoTo(Cur, g, g).current_step = step_checkpoint[g]
                    /\ CmdGoTo(Cur, g, g).dd_current = date_checkpoint[g]
                    /\ CmdGoTo(Cur, g, g).unresolved_steps = <<>>
               ELSE CmdGoTo(Cur, g, g) =
                      [Cur EXCEPT !.dd_current_end =
                                     Date(dd_start.year + g - 1, 12, 31)])
    /\ [][(/\ IterateStep
           /\ cmd' = "GoTo"
           /\ goto_year \in Slots
           /\ goto_year <= last_checkpoint)
          => goto_year <= YearsClosedBefore]_vars

\* the iteration has recorded a sub-step and run the year-closing batch
BatchRan == recorded' /\ unresolved_steps' = <<>> /\ pc' = "loop"

(***************************************************************************)
(* C16: at the end of an iteration whose year-closing batch ran with the   *)
(* sync flag set (by a SyncRuns processed in that iteration or before, no  *)
(* batch having run since) every realization's infected and susceptible    *)
(* raster equal those of realization 0 and the flag is cleared; a batch    *)
(* that runs with the flag cleared leaves the rasters as the parallel      *)
(* pass and the mortality left them.                                       *)
(***************************************************************************)
C16_SyncConvergence ==
    [][(IterateStep /\ BatchRan) =>
         /\ ~sync'
         /\ (sync \/ cmd' = "SyncRuns") =>
              \A run \in Runs :
                 /\ sus_species_rasts'[run] = sus_species_rasts'[0]
                 /\ inf_species_rasts'[run] = inf_species_rasts'[0]
         /\ ~(sync \/ cmd' = "SyncRuns") =>
              \E s \in {RecordStep(Cur)} :
                 \A run \in Runs :
                    \E r \in RunOutcomes(s, run) :
                       /\ sus_species_rasts'[run] = r.sus
                       /\ inf_species_rasts'[run] =
                              r.inf - (IF opt.mortality
                                          /\ MortalityReached(SimulationYear(s))
                                       THEN dead_in_current_year'[run]
                                       ELSE 0)]_vars

\* a batch has consumed the flag: the slot it saved shows that the
\* realizations differed before they were synchronised
C16_Witness ==
    /\ "SyncRuns" \in Range(got)
    /\ ~sync
    /\ pc = "loop"
    /\ last_checkpoint >= 1
    /\ inf_checkpoint[last_checkpoint][0] # inf_checkpoint[last_checkpoint][1]
    /\ inf_species_rasts[1] = inf_species_rasts[0]
    /\ sus_species_rasts[1] = sus_species_rasts[0]
    /\ dd_current = Date(dd_start.year + last_checkpoint, 1, 1)

(***************************************************************************)
(* C17: checkpoints are indexed by simulated year.  The year-closing batch *)
(* of the k-th simulated year (k = 1..number of years) leaves the          *)
(* last-checkpoint index k, with the date of that year's last sub-step and *)
(* the step counter of that sub-step in slot k; in every state slot 0      *)
(* carries the start date and every slot i in 1..last-checkpoint index     *)
(* has been written, with a date in year (start year + i - 1).             *)
(***************************************************************************)
C17_CheckpointPerYear ==
    /\ [](pc \in {"loop", "done", "returned"} =>
            /\ last_checkpoint \in Slots
            /\ date_checkpoint[0] = dd_start
            /\ step_checkpoint[0] = 0
            /\ \A i \in 1..last_checkpoint :
                  /\ date_checkpoint[i].year = dd_start.year + i - 1
                  /\ is_last_month_of_year(date_checkpoint[i])
                  /\ step_checkpoint[i] = 12 * i - 1)
    /\ [][(IterateStep /\ BatchRan) =>
            /\ batches' # <<>>
            /\ last_checkpoint' = batches'[Len(batches')] - dd_start.year + 1
            /\ last_checkpoint' \in 1..num_years
            /\ date_checkpoint'[last_checkpoint'].year = dd_current'.year - 1
            /\ step_checkpoint'[last_checkpoint'] = current_step' - 1
            /\ sus_checkpoint'[0] = sus_checkpoint[0]
            /\ inf_checkpoint'[0] = inf_checkpoint[0]]_vars

\* a batch run over two years has written slots 1 and 2
C17_Witness ==
    /\ ~steering
    /\ pc = "returned"
    /\ num_years = 2
    /\ last_checkpoint = 2
    /\ date_checkpoint[2] = Date(opt.start_time + 1, 12, 1)
    /\ date_checkpoint[1] = Date(opt.start_time, 12, 1)

(***************************************************************************)
(* C18: slot 0 always holds the initial susceptible and infected rasters,  *)
(* and the slot written by a year-closing batch holds, for every           *)
(* realization, the susceptible and infected rasters that the realization  *)
(* has at the end of that batch.                                           *)
(***************************************************************************)
C18_CheckpointContent ==
    /\ [](/\ sus_checkpoint[0] = [run \in Runs |-> S_species_rast]
          /\ inf_checkpoint[0] = [run \in Runs |-> opt.infected])
    /\ [][(IterateStep /\ BatchRan) =>
            /\ sus_checkpoint'[last_checkpoint'] = sus_species_rasts'
            /\ inf_checkpoint'[last_checkpoint'] = inf_species_rasts']_vars

\* an iteration of a batch run that has closed a year (the last one ends the
\* loop)
YearClosed ==
    /\ IterateStep
    /\ recorded'
    /\ unresolved_steps' = <<>>
    /\ pc' \in {"loop", "done"}

\* what a cohort of v hosts loses in one application of the mortality
LostOf(v) == (v * opt.infected_to_dead_rate[1]) \div opt.infected_to_dead_rate[2]

\* the cohort of a run before the mortality of the batch that has just run:
\* the cohort of the year being closed holds the hosts infected in the batch
CohortBefore(run, age) ==
    IF age = last_checkpoint' - 1
    THEN inf_species_cohort_rasts[run][age]
         + (inf_checkpoint'[last_checkpoint'][run] - inf_species_rasts[run])
    ELSE inf_species_cohort_rasts[run][age]

\* the oldest cohort the mortality of the batch that has just run reaches;
\* with a time lag of 0 no batch reaches a cohort
LastAged ==
    IF opt.first_year_to_die = 0 THEN 0 - 1
    ELSE (last_checkpoint' - 1) - (opt.first_year_to_die - 1)

(***************************************************************************)
(* C19: in a batch run with mortality, the year-closing batch of           *)
(* simulation year y takes rate x bucket hosts (as an integer) from every  *)
(* cohort created in a year up to y - (first year to die - 1) and from no  *)
(* other, adds what the cohorts of a realization lose to its dead raster   *)
(* and subtracts it from its infected raster; before the first year to die *)
(* no cohort is aged.  With first year to die 2 and rate 1/2 a cohort of   *)
(* 10 hosts of year 0 is 5 after the batch of year 1, and 5 hosts are      *)
(* dead.                                                                   *)
(***************************************************************************)
C19_MortalityAging ==
    [][(YearClosed /\ opt.mortality) =>
         /\ opt.dead_series =>
               accumulated_dead' = accumulated_dead + dead_in_current_year'[0]
         /\ \A run \in Runs :
            /\ \A age \in Ages :
                  inf_species_cohort_rasts'[run][age] =
                     IF age <= LastAged
                     THEN CohortBefore(run, age) - LostOf(CohortBefore(run, age))
                     ELSE CohortBefore(run, age)
            /\ LastAged >= 0 =>
                  /\ dead_in_current_year'[run] =
                        SumTo([age \in Ages |-> LostOf(CohortBefore(run, age))],
                              LastAged)
                  /\ inf_species_rasts'[run] =
                        inf_checkpoint'[last_checkpoint'][run]
                        - dead_in_current_year'[run]
            /\ LastAged < 0 =>
                  /\ dead_in_current_year'[run] = dead_in_current_year[run]
                  /\ inf_species_rasts'[run] = inf_checkpoint'[last_checkpoint'][run]
            /\ (/\ opt.first_year_to_die = 2
                /\ last_checkpoint' = 2
                /\ inf_species_cohort_rasts[run][0] = 10) =>
                  /\ inf_species_cohort_rasts'[run][0] = 5
                  /\ dead_in_current_year'[run] = 5]_vars

\* ten hosts infected in year 0, hosts die from the second year on: after
\* the batch of year 1 the cohort holds 5 and 5 hosts are dead
C19_Witness ==
    /\ opt.mortality
    /\ opt.first_year_to_die = 2
    /\ opt.dead_series
    /\ pc = "returned"
    /\ last_checkpoint = 2
    /\ inf_checkpoint[1][0] = 11
    /\ inf_species_cohort_rasts[0][0] = 5
    /\ dead_in_current_year[0] = 5
    /\ accumulated_dead = 5

\* every name written or announced by the last iteration
NamesOut ==
    {written[i].name : i \in DOMAIN written}
    \cup {sent[i].name : i \in {j \in DOMAIN sent : sent[j].kind = "output"}}

(***************************************************************************)
(* C20: once the scheduler has processed ChangeName(name) (a name has been *)
(* received and no command is waiting), every output identifier that a     *)
(* year-closing batch writes or announces is built from the new basename.  *)
(***************************************************************************)
C20_NewBasenameUsed ==
    (/\ basename # <<>>
     /\ command_queue = <<>>
     /\ client_pc \notin {"handle", "load_name", "store"})
    => \A name \in NamesOut : name.base = basename

\* LoadData(year, name) has been applied to the schedule old and has given
\* the schedule new
Loaded(old, new, year, name) ==
    /\ year \in DOMAIN new
    /\ new[year] = GrassRasters[name]
    /\ \A y \in DOMAIN new \ {year} :
          y < year /\ y \in DOMAIN old /\ new[y] = old[y]
    /\ \A y \in DOMAIN old : y < year => y \in DOMAIN new

(***************************************************************************)
(* C21: the LoadData branch, applied in any state of the loop with the     *)
(* year and the name of an existing raster, gives a treatment schedule     *)
(* with the loaded raster at that year, with no other entry for that year  *)
(* or a later one, and with the entries of earlier years as they were, and *)
(* changes nothing else (no realization, no checkpoint).  The iteration    *)
(* that processes a LoadData command leaves such a schedule, for a year    *)
(* and the raster of a name.                                               *)
(***************************************************************************)
C21_LoadDataEffect ==
    /\ []((pc = "loop" /\ load_data \in DOMAIN GrassRasters) =>
            /\ Loaded(treatments,
                      CmdLoadData(Cur, treatment_year, load_data,
                                  treatment_year).treatments,
                      treatment_year, load_data)
            /\ [CmdLoadData(Cur, treatment_year, load_data, treatment_year)
                   EXCEPT !.treatments = treatments] = Cur)
    /\ [][(IterateStep /\ cmd' = "LoadData" /\ pc' # "fatal") =>
            \E year \in DOMAIN treatments' :
               \E name \in DOMAIN GrassRasters :
                  Loaded(treatments, treatments', year, name)]_vars

\* a string of digits
IsNumber(s) == s # <<>> /\ DigitRun(s, 1) = Len(s)

\* the recognized forms of a steering message
Recognized(message) ==
    \/ message \in {F_play, F_pause, F_stepf, F_stepb, F_stop, W_sync}
    \/ /\ Len(split(message, ":")) = 3
       /\ split(message, ":")[1] = W_load
       /\ IsNumber(split(message, ":")[2])
       /\ split(message, ":")[3] # <<>>
    \/ /\ Len(split(message, ":")) = 2
       /\ split(message, ":")[1] = W_name
       /\ split(message, ":")[2] # <<>>
    \/ /\ Len(split(message, ":")) = 2
       /\ split(message, ":")[1] = W_goto
       /\ IsNumber(split(message, ":")[2])

\* the steering thread ends its pass of the for loop for the first message
\* of the frame
HandleStep ==
    /\ client_pc \in {"handle", "load_name", "store"}
    /\ got' = got
    /\ received_vec' # received_vec

(***************************************************************************)
(* C22: when the steering thread handles a message of no recognized form,  *)
(* no command is pushed, no staging field and no state of the simulation   *)
(* changes, no error is raised, and the thread goes on with the next       *)
(* message or the next frame.                                              *)
(***************************************************************************)
C22_UnrecognizedIgnored ==
    [][(HandleStep /\ ~Recognized(Head(received_vec))) =>
          /\ UNCHANGED <<steering_vars, stored, main_vars>>
          /\ client_pc' \in {"receive", "handle"}]_vars

\* the command that corresponds to a message of a recognized form
CommandOf(message) ==
    IF message = F_play THEN "Play"
    ELSE IF message = F_pause THEN "Pause"
    ELSE IF message = F_stepf THEN "StepForward"
    ELSE IF message = F_stepb THEN "StepBack"
    ELSE IF message = F_stop THEN "Stop"
    ELSE IF message = W_sync THEN "SyncRuns"
    ELSE IF split(message, ":")[1] = W_load THEN "LoadData"
    ELSE IF split(message, ":")[1] = W_name THEN "ChangeName"
    ELSE "GoTo"

\* the year of a goto message fits an int, that of a load message an
\* unsigned long
YearFits(message) ==
    /\ split(message, ":")[1] = W_goto => ~stoiOutOfRange(split(message, ":")[2])
    /\ split(message, ":")[1] = W_load => ~stoulOutOfRange(split(message, ":")[2])

(***************************************************************************)
(* C23: a received frame is split on ";"; the steering thread handles the  *)
(* messages in their order, and handling a message of a recognized form    *)
(* pushes exactly one command, of the kind that corresponds to the form,   *)
(* at the back of the queue.  After cmd:stop the thread handles no further *)
(* message of the frame and receives no further frame; after any other     *)
(* message it goes on with the rest of the frame.                          *)
(***************************************************************************)
C23_FrameParsing ==
    [][(HandleStep /\ Recognized(Head(received_vec))
                   /\ YearFits(Head(received_vec))) =>
          /\ command_queue' = Append(command_queue, CommandOf(Head(received_vec)))
          /\ stored' = Append(stored, CommandOf(Head(received_vec)))
          /\ IF Head(received_vec) = F_stop
             THEN received_vec' = <<>> /\ client_pc' = "exited"
             ELSE /\ received_vec' = Tail(received_vec)
                  /\ client_pc' = IF Tail(received_vec) = <<>>
                                  THEN "receive" ELSE "handle"]_vars

\* the frame "cmd:stop;cmd:play" or "cmd:stop" has been handled: Stop is
\* stored, nothing after it, and the thread has left its loop with the
\* socket still open
C23_Witness ==
    /\ stored = <<"Stop">>
    /\ nframes = 1
    /\ client_pc = "exited"
    /\ received_vec = <<>>
    /\ socket_open
    /\ pc = "loop"

\* the next step of the steering thread writes a payload field of the
\* Steering object (lines 334-349; no mutex is held)
ThreadWritesPayload ==
    /\ Alive
    /\ client_pc \in {"handle", "load_name"}
    /\ Substr(Head(received_vec), 0, 4) \in {W_load, W_name, W_goto}
    /\ Handled(ClientState).kind # "throw"

\* the next iteration of the scheduler reads a payload field of the
\* Steering object (lines 1196-1207; no mutex is held)
SchedulerReadsPayload ==
    /\ pc = "loop"
    /\ get(command_queue).cmd \in {"LoadData", "ChangeName", "GoTo"}

(***************************************************************************)
(* C24: apart from the command queue, which is accessed under its mutex,   *)
(* no variable is accessed by both threads without mutual exclusion: in no *)
(* reachable state is the steering thread about to write a payload field   *)
(* while the scheduler is about to read one.                               *)
(***************************************************************************)
C24_PayloadExclusive == ~(ThreadWritesPayload /\ SchedulerReadsPayload)

(***************************************************************************)
(* C25: when the scheduler processes a GoTo or a LoadData command, the     *)
(* year (and the raster name) it reads is the one of the message that      *)
(* stored this command, also when further goto or load messages have been  *)
(* handled in between.                                                     *)
(***************************************************************************)
C25_OwnPayload ==
    [][(IterateStep /\ cmd' \in {"GoTo", "LoadData"}) =>
          Head(payloads) = IF cmd' = "GoTo"
                           THEN Payload("GoTo", goto_year, <<>>)
                           ELSE Payload("LoadData", treatment_year, load_data)]_vars

\* a worker of the parallel pass is running
WorkerRunning == \E run \in Runs : workers[run] = "running"

(***************************************************************************)
(* C26: while a worker of the parallel pass of a year-closing batch is     *)
(* running, no command is popped or applied, no checkpoint slot is written *)
(* or restored and no synchronisation copy is made: the scheduler is at    *)
(* the loop head only when no worker exists, a step taken while a worker   *)
(* is running changes neither the commands popped, the clock, the step     *)
(* buffers, the checkpoints, the synchronisation flag nor the outputs, and *)
(* changes the rasters of no realization whose worker has finished; the    *)
(* checkpoint of the year is saved in the step that follows the end of the *)
(* last worker (when the steering thread ends the process inside that      *)
(* step, the slot holds, realization by realization, the rasters the       *)
(* workers have left or what it held before).                              *)
(***************************************************************************)
C26_BatchNotInterleaved ==
    /\ [](pc \in {"loop", "done", "returned"} =>
            \A run \in Runs : workers[run] = "idle")
    /\ [][WorkerRunning =>
            /\ UNCHANGED <<cmd, got, clock_vars, checkpoint_vars, effect_vars,
                           treatments, dead_in_current_year, accumulated_dead,
                           I_species_rast>>
            /\ \A run \in Runs :
                  workers[run] = "finished" =>
                     /\ workers'[run] = "finished"
                     /\ sus_species_rasts'[run] = sus_species_rasts[run]
                     /\ inf_species_rasts'[run] = inf_species_rasts[run]
                     /\ inf_species_cohort_rasts'[run]
                            = inf_species_cohort_rasts[run]]_vars
    /\ [][(checkpoint_vars' # checkpoint_vars /\ pc = "pass") =>
            /\ \A run \in Runs : workers[run] = "finished"
            /\ pc' # "aborted" =>
                  /\ sus_checkpoint'[last_checkpoint'] = sus_species_rasts
                  /\ inf_checkpoint'[last_checkpoint'] = inf_species_rasts
            /\ pc' = "aborted" =>
                  /\ last_checkpoint' \in Slots
                  /\ \A run \in Runs :
                        /\ sus_checkpoint'[last_checkpoint'][run] \in
                               {sus_checkpoint[last_checkpoint'][run],
                                sus_species_rasts[run]}
                        /\ inf_checkpoint'[last_checkpoint'][run] \in
                               {inf_checkpoint[last_checkpoint'][run],
                                inf_species_rasts[run]}]_vars

\* a command has been stored while the pass is running: one worker has
\* finished, the other is running, the command waits in the queue
C26_Witness ==
    /\ pc = "pass"
    /\ opt.num_runs = 2
    /\ workers[0] = "finished"
    /\ workers[1] = "running"
    /\ command_queue # <<>>
    /\ inf_species_rasts[0] # inf_checkpoint[last_checkpoint][0]

(***************************************************************************)
(* C27: an iteration that records a sub-step when no realization has a     *)
(* susceptible host left leaves the loop, without closing a year.          *)
(***************************************************************************)
C27_ExhaustionEndsRun ==
    [][(/\ IterateStep
        /\ recorded'
        /\ \A run \in Runs : sus_species_rasts[run] = 0) =>
          /\ pc' = "done"
          /\ last_checkpoint' = last_checkpoint
          /\ written' = <<>>]_vars

\* the sub-step of this iteration is the last one of a year for which no
\* temperature raster was given
TemperatureMissing ==
    /\ pc = "loop"
    /\ opt.use_lethal_temperature
    /\ StepGuard(Cur)
    /\ ~all_infected(S_species_rast)
    /\ dd_current.month = 12
    /\ ~after_loading_checkpoint
    /\ dd_current.year - dd_start.year >= Len(opt.actual_temperatures)

(***************************************************************************)
(* C28: in a run with lethal temperature, the iteration that reaches the   *)
(* year-closing batch of a year for which no temperature raster was given  *)
(* ends the process with a fatal error, and a fatal error leaves every     *)
(* realization, the cohorts, the dead counts, every checkpoint slot and    *)
(* the last-checkpoint index as they were and writes and sends nothing;    *)
(* no year without a temperature raster is ever closed.                    *)
(***************************************************************************)
C28_MissingTemperatureFatal ==
    /\ [][(IterateStep /\ TemperatureMissing) => pc' = "fatal"]_vars
    /\ [][(IterateStep /\ pc' = "fatal" /\ cmd' # "LoadData") =>
            /\ TemperatureMissing
            /\ UNCHANGED <<sus_species_rasts, inf_species_rasts,
                           inf_species_cohort_rasts, dead_in_current_year,
                           accumulated_dead, I_species_rast, checkpoint_vars>>
            /\ written' = <<>>
            /\ sent' = <<>>]_vars
    /\ [](opt.use_lethal_temperature =>
            /\ last_checkpoint <= Len(opt.actual_temperatures)
            /\ \A i \in DOMAIN batches :
                  batches[i] - dd_start.year < Len(opt.actual_temperatures))

\* the first year was closed with its temperature raster, the batch of the
\* second year, which has none, has ended the run
C28_Witness ==
    /\ pc = "fatal"
    /\ Len(opt.actual_temperatures) = 1
    /\ last_checkpoint = 1
    /\ batches = <<opt.start_time>>
    /\ dd_current = Date(opt.start_time + 1, 12, 1)
    /\ Len(unresolved_steps) = 12

\* the number of realizations with infected hosts in the cell
InfectedRuns(rasts) == Cardinality({run \in Runs : rasts[run] > 0})

(***************************************************************************)
(* C29: the percent-occurrence raster written by a year-closing batch has  *)
(* the value floor(100 * k / N), N the number of realizations and k the    *)
(* number of realizations with an infected count > 0 at the end of the     *)
(* batch, a value within 0..100, and the mean raster written has the       *)
(* integer quotient of the sum of the infected counts by N.                *)
(***************************************************************************)
C29_Aggregation ==
    [][IterateStep =>
         \A i \in DOMAIN written' :
            /\ written'[i].name.base = probability_series =>
                  /\ written'[i].value
                        = (100 * InfectedRuns(inf_species_rasts')) \div opt.num_runs
                  /\ written'[i].value \in 0..100
            /\ written'[i].name.base = output_series =>
                  written'[i].value
                     = TruncDiv(SumTo(inf_species_rasts', opt.num_runs - 1),
                                opt.num_runs)]_vars

\* the names of the output series written by the last iteration
SeriesWritten ==
    {written[i].name : i \in {j \in DOMAIN written :
                                 written[j].name.base = output_series}}

\* the notifications of a kind sent by the last iteration
SentOf(kind) == {i \in DOMAIN sent : sent[i].kind = kind}

(***************************************************************************)
(* C30: in a steering session an iteration sends one output notification   *)
(* for the output series raster it has written, with the name of that      *)
(* raster, and none otherwise; the info:last notification an iteration     *)
(* sends carries the name of the output series raster written in the same  *)
(* iteration; a batch run sends nothing.                                   *)
(***************************************************************************)
C30_Notifications ==
    /\ ~steering => sent = <<>>
    /\ (steering /\ ~opt.probability_series) =>
          /\ Cardinality(SentOf("output")) = Cardinality(SeriesWritten)
          /\ \A i \in SentOf("output") : sent[i].name \in SeriesWritten
    /\ \A i \in SentOf("last") :
          \E j \in DOMAIN written : /\ written[j].name.base = output_series
                                    /\ sent[i].name = written[j].name

(***************************************************************************)
(* C31: every checkpoint slot index that is written or read lies in        *)
(* 0..number of years (the index of the last checkpoint, which the save    *)
(* writes and StepBack reads, is one of the slots), and an iteration that  *)
(* reaches the parallel pass uses a cohort index in 0..number of years - 1 *)
(* (no batch runs for a year after the end year).                          *)
(***************************************************************************)
C31_IndexBounds ==
    /\ last_checkpoint \in Slots
    /\ \A a \in Applied(PastEndServer) : ReachesPass(a) => SimulationYear(a) \in Ages

\* the states in which the next iteration of the loop can start a
\* year-closing batch in a session with ReplayServer: the command is
\* applied and the step is recorded
BatchAhead == {RecordStep(a) : a \in {x \in Applied(ReplayServer) : ReachesPass(x)}}

\* what the worker of a realization does in the batch started in b
WorkAhead(b, run) == RunWorker(b, run, {})

(***************************************************************************)
(* C32: in every year-closing batch and for every realization, remove and  *)
(* the treatment are each called at most once, and exactly once when a     *)
(* month of the year is configured for them (with monthly sub-steps every  *)
(* month of a closed year is one of its sub-step months).                  *)
(***************************************************************************)
C32_OncePerYear ==
    \A b \in BatchAhead :
        \A run \in Runs :
            /\ WorkAhead(b, run).removed <= 1
            /\ WorkAhead(b, run).treated <= 1
            /\ (opt.use_lethal_temperature /\ opt.lethal_temperature_month \in 1..12)
                   => WorkAhead(b, run).removed = 1
            /\ (use_treatments /\ opt.treatment_month \in 1..12)
                   => WorkAhead(b, run).treated = 1

\* the date of sub-step n of the simulation (monthly sub-steps from the
\* first of January of the start year)
StepDate(n) == Date(dd_start.year + (n \div 12), (n % 12) + 1, 1)

\* what C33 expects of the gating: the sub-steps among steps whose own
\* month lies inside the season (the code tests the month of the entry of
\* unresolved_dates instead, lines 1291 and 1319: SpreadStep)
InSeason(steps) == SelectSeq(steps, LAMBDA n : month_in_season(StepDate(n).month))

(***************************************************************************)
(* C33: in every year-closing batch and for every realization, generate    *)
(* and disperse are called exactly for the unresolved sub-steps whose      *)
(* month lies inside the season, once each and in the order of the         *)
(* sub-steps, each call with the weather coefficient of that sub-step.     *)
(***************************************************************************)
C33_SeasonalGating ==
    \A b \in BatchAhead :
        \A run \in Runs :
            WorkAhead(b, run).spread =
                [i \in 1..Len(InSeason(b.unresolved_steps)) |->
                    [date |-> StepDate(InSeason(b.unresolved_steps)[i]),
                     weather |-> InSeason(b.unresolved_steps)[i]]]

(***************************************************************************)
(* C34: a step of the worker of realization r in the parallel pass writes  *)
(* the susceptible raster, the infected raster and the cohorts of          *)
(* realization r only: the rasters and cohorts of every other realization, *)
(* the treatments, the unresolved steps and dates and the clock are left   *)
(* as they are, and the state of no other worker changes.                  *)
(***************************************************************************)
C34_WorkersDisjoint ==
    [][\A run \in Runs :
          (pc = "pass" /\ workers[run] = "running" /\ workers'[run] = "finished")
          => /\ \A other \in Runs \ {run} :
                   /\ workers'[other] = workers[other]
                   /\ sus_species_rasts'[other] = sus_species_rasts[other]
                   /\ inf_species_rasts'[other] = inf_species_rasts[other]
                   /\ inf_species_cohort_rasts'[other]
                          = inf_species_cohort_rasts[other]
             /\ UNCHANGED <<treatments, clock_vars, checkpoint_vars,
                            dead_in_current_year, accumulated_dead,
                            I_species_rast>>]_vars

\* the worker of the second realization has finished and has infected a
\* host, the worker of the first realization has not run yet
C34_Witness ==
    /\ pc = "pass"
    /\ opt.num_runs = 2
    /\ workers[1] = "finished"
    /\ workers[0] = "running"
    /\ inf_species_rasts[1] > inf_species_rasts[0]
    /\ sus_species_rasts[1] < sus_species_rasts[0]

\* the slot that the command popped by the next iteration restores (-1: the
\* command restores no checkpoint)
RestoredSlot(c) ==
    IF c = "StepBack" /\ last_checkpoint - 1 >= 0 THEN last_checkpoint - 1
    ELSE IF c = "GoTo" /\ UnsignedLess(goto_year, num_checkpoints)
                      /\ UnsignedLE(goto_year, last_checkpoint) THEN goto_year
    ELSE 0 - 1

(***************************************************************************)
(* C35: an iteration that restores a checkpoint (StepBack, backward GoTo)  *)
(* closes no year: it leaves the realizations as the restored slot holds   *)
(* them, overwrites no checkpoint slot, writes no output and sends no      *)
(* output notification.                                                    *)
(***************************************************************************)
C35_RestoreRunsNoBatch ==
    [][(IterateStep /\ got' # got /\ RestoredSlot(cmd') >= 0)
       => /\ batches' = <<>>
          /\ sus_species_rasts' = sus_checkpoint[RestoredSlot(cmd')]
          /\ inf_species_rasts' = inf_checkpoint[RestoredSlot(cmd')]
          /\ UNCHANGED <<sus_checkpoint, inf_checkpoint, step_checkpoint,
                         date_checkpoint, inf_species_cohort_rasts>>
          /\ written' = <<>>
          /\ \A i \in 1..Len(sent') : sent'[i].kind # "output"]_vars

\* a StepBack has restored the December of a closed year: the sub-step is
\* recorded and the clock has advanced into the next year without a batch
C35_Witness ==
    /\ cmd = "StepBack"
    /\ recorded
    /\ unresolved_steps # <<>>
    /\ dd_current.month = 1
    /\ last_checkpoint >= 1
    /\ batches = <<>>

(***************************************************************************)
(* C36: the unresolved-step buffer and the unresolved-date buffer have the *)
(* same length, and entry k of the dates is the date of the sub-step that  *)
(* entry k of the steps names.                                             *)
(***************************************************************************)
C36_BuffersAligned ==
    /\ Len(unresolved_steps) = Len(unresolved_dates)
    /\ \A k \in 1..Len(unresolved_steps) :
          unresolved_dates[k] = StepDate(unresolved_steps[k])

\* the size of the weather-coefficient buffer (max_weeks_in_year)
max_weeks_in_year == 53

(***************************************************************************)
(* C37: the sub-steps that a year-closing batch simulates are dated within *)
(* the year being closed, no sub-step is simulated twice, and they are not *)
(* more than the weather-coefficient buffer holds.                         *)
(***************************************************************************)
C37_BatchWithinYear ==
    \A b \in BatchAhead :
        /\ Len(b.unresolved_steps) <= max_weeks_in_year
        /\ \A k \in 1..Len(b.unresolved_steps) :
              /\ StepDate(b.unresolved_steps[k]).year = b.dd_current.year
              /\ \A j \in 1..(k - 1) :
                     b.unresolved_steps[j] # b.unresolved_steps[k]

(***************************************************************************)
(* C38: the date that a StepBack restores is not later than the date of    *)
(* the clock when the command is processed.                                *)
(***************************************************************************)
C38_RewindGoesBack ==
    [][(IterateStep /\ got' # got /\ cmd' = "StepBack" /\ last_checkpoint - 1 >= 0)
       => DateLE(date_checkpoint[last_checkpoint - 1], dd_current)]_vars

(***************************************************************************)
(* C39: with mortality, the infected raster and the cohorts of every       *)
(* realization are never negative (the hosts that mortality removes from   *)
(* the infected raster are never more than it holds).                      *)
(***************************************************************************)
C39_NoNegativeHosts ==
    opt.mortality =>
        \A run \in Runs :
            /\ inf_species_rasts[run] >= 0
            /\ \A age \in Ages : inf_species_cohort_rasts[run][age] >= 0

(***************************************************************************)
(* C40: the step counter and the clock stay in lock-step: the current date *)
(* is the date of sub-step current_step, and every checkpoint slot holds   *)
(* the step that belongs to its date.                                      *)
(***************************************************************************)
C40_StepMatchesClock ==
    /\ dd_current = StepDate(current_step)
    /\ \A i \in Slots : date_checkpoint[i] = StepDate(step_checkpoint[i])
    /\ \A k \in 1..Len(unresolved_steps) :
          DateLE(StepDate(unresolved_steps[k]), dd_current)

\* a checkpoint of a later year was restored and the run has gone on from
\* it: the clock is in the second year with a slot restored by StepBack
C40_Witness ==
    /\ "StepBack" \in Range(got)
    /\ last_checkpoint = 1
    /\ current_step = 12
    /\ dd_current = Date(dd_start.year + 1, 1, 1)
    /\ after_loading_checkpoint = FALSE
    /\ unresolved_steps = <<11>>
====
